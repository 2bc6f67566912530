---------------------------- MODULE CopilotProofs ----------------------------
(***************************************************************************)
(* Proofs about the copilot, for every number of providers, keys, handlers, *)
(* files, runs, callers, services and limits of a prompt: the providers     *)
(* that are saved and those that run, the index of the knowledge base, the  *)
(* conversations that are kept in the database and in memory, the prompts,  *)
(* what is told of a router whatever its collection lacks, and the types    *)
(* of all parts.                                                            *)
(*                                                                         *)
(* A step of Services is a step of the part or leaves it alone (PartSteps); *)
(* each part has an inductive invariant of its own.                         *)
(***************************************************************************)
EXTENDS BackendProofs, ListsProofs

-----------------------------------------------------------------------------
(* Providers.                                                              *)

KeyStores == [Types -> ApiKeys \cup {NoApiKey}]
HandlerStates == [at : {"idle", "loads", "closes rag", "closes manager"},
                  own : Managers \cup {NoManager}, oldRag : Managers \cup {NoManager},
                  old : Managers \cup {NoManager}]

\* Unless a handler failed, the files can be read and no key is without its
\* provider; unless the manager is stale, it was built from them.
FilesInv ==
    /\ Up /\ ~ stale => /\ config.is = "whole"
                        /\ running = RunsWith(config, stored) /\ defaultName = Preferred(config)
    /\ ~ failed => /\ config.is = "whole"
                   /\ \A t \in Types : stored[t] # NoApiKey => Has(t)

\* Managers that are no longer used and not closed yet.
Replaced == {handler[h].old : h \in {g \in Handlers : handler[g] # Waiting}}

\* The managers of before are closed, or some handler is about to.
ManagersInv ==
    /\ Up => manager = built - 1 /\ built > 0
    /\ ~ Up => built = 0 /\ Quiet
    /\ closed \cup Replaced = 0..built - 2
    /\ \A h \in Handlers : handler[h] # Waiting => handler[h].own \in Managers

\* A handler that reloads alone knows the RAG service to close: there is no other
\* but the new one.
RagInv(h) ==
    \/ /\ handler[h].at = "loads" /\ handler[h].own = manager /\ handler[h].oldRag = rag
       /\ openRags \subseteq {rag}
    \/ /\ handler[h].at = "closes rag" /\ rag \in {NoManager, manager}
       /\ openRags \subseteq {rag, handler[h].oldRag}
    \/ /\ handler[h].at = "closes manager" /\ rag \in {NoManager, manager} /\ openRags \subseteq {rag}

RagsInv ==
    ~ overlapped =>
        /\ Quiet => rag \in {NoManager, manager} /\ openRags \subseteq {rag}
        /\ \A h \in Handlers : handler[h] # Waiting =>
              RagInv(h) /\ \A g \in Handlers : handler[g] # Waiting => g = h

ProvidersInv == ProvidersTypeOK /\ FilesInv /\ ManagersInv /\ RagsInv

LEMMA ProviderFacts == NoDefault \notin Types /\ NotRunning \notin ApiKeys
BY ProviderAdminAssumption, Zenon

LEMMA ManagerFacts ==
    /\ MaxReloads \in Nat
    /\ Managers = 0..MaxReloads
    /\ NoManager = -1
    /\ 0 \in Managers
<1>1. MaxReloads \in Nat
  BY ProviderAdminAssumption, Zenon
<1> QED BY <1>1 DEF Managers, NoManager

LEMMA WaitingIs == Waiting \in HandlerStates /\ Waiting.at = "idle"
BY DEF Waiting, HandlerStates

LEMMA ProvidersTypesAre ==
    ProvidersTypeOK <=>
        /\ config \in Configs \cup {Unreadable} /\ stored \in KeyStores
        /\ manager \in Managers \cup {NoManager} /\ rag \in Managers \cup {NoManager}
        /\ running \in [Types -> ApiKeys \cup {NoApiKey, NotRunning}]
        /\ defaultName \in Types \cup {NoDefault}
        /\ openRags \subseteq Managers /\ closed \subseteq Managers
        /\ handler \in [Handlers -> HandlerStates]
        /\ built \in 0..MaxReloads + 1
        /\ stale \in BOOLEAN /\ failed \in BOOLEAN /\ overlapped \in BOOLEAN
BY Zenon DEF ProvidersTypeOK, KeyStores, HandlerStates

LEMMA ProvidersInitInv == ProvidersInit => ProvidersInv
<1> SUFFICES ASSUME ProvidersInit PROVE ProvidersInv
  OBVIOUS
<1>1. /\ config = Config(NoProviders, NoDefault)
      /\ stored = [t \in Types |-> NoApiKey]
      /\ manager = NoManager /\ rag = NoManager
      /\ running = [t \in Types |-> NotRunning] /\ defaultName = NoDefault
      /\ openRags = {} /\ closed = {}
      /\ handler = [h \in Handlers |-> Waiting]
      /\ built = 0
      /\ stale = FALSE /\ failed = FALSE /\ overlapped = FALSE
  BY DEF ProvidersInit
<1>2. Config(NoProviders, NoDefault) \in Configs /\ Config(NoProviders, NoDefault).is = "whole"
  BY DEF Config, Configs, NoProviders
<1>3. built \in 0..MaxReloads + 1
  BY <1>1, ManagerFacts
<1>4. stored \in KeyStores /\ running \in [Types -> ApiKeys \cup {NoApiKey, NotRunning}]
  BY <1>1 DEF KeyStores
<1>5. handler \in [Handlers -> HandlerStates] /\ \A h \in Handlers : handler[h] = Waiting
  BY <1>1, WaitingIs
<1>6. ProvidersTypeOK
  BY <1>1, <1>2, <1>3, <1>4, <1>5, ProvidersTypesAre
<1>7. ~ Up /\ Quiet /\ Replaced = {}
  BY <1>1, <1>5 DEF Up, Quiet, Replaced
<1>8. FilesInv
  BY <1>1, <1>2, <1>7 DEF FilesInv
<1>9. ManagersInv
  BY <1>1, <1>5, <1>7 DEF ManagersInv
<1>10. RagsInv
  BY <1>1, <1>5 DEF RagsInv
<1> QED BY <1>6, <1>8, <1>9, <1>10 DEF ProvidersInv

\* A manager runs what it is built from.
LEMMA RunsAre ==
  ASSUME NEW c \in Configs, NEW keys \in KeyStores
  PROVE  /\ c.is = "whole" /\ c.provider \in [Types -> {"none", "disabled", "enabled"}]
         /\ c.default \in Types \cup {NoDefault}
         /\ RunsWith(c, keys) \in [Types -> ApiKeys \cup {NoApiKey, NotRunning}]
         /\ Preferred(c) \in Types \cup {NoDefault}
<1>1. c.is = "whole" /\ c.provider \in [Types -> {"none", "disabled", "enabled"}]
      /\ c.default \in Types \cup {NoDefault}
  BY DEF Configs
<1>2. RunsWith(c, keys) \in [Types -> ApiKeys \cup {NoApiKey, NotRunning}]
  BY DEF RunsWith, KeyStores
<1>3. Preferred(c) \in Types \cup {NoDefault}
  BY <1>1 DEF Preferred
<1> QED BY <1>1, <1>2, <1>3

\* What a reload takes over: the manager before is to be closed, and the RAG
\* service that is in use, if nobody else is reloading.
LEMMA ReloadKeepsProviders ==
  ASSUME ProvidersInv, NEW h \in Handlers, handler[h] = Waiting, Up,
         NEW c \in Configs, NEW keys \in KeyStores,
         ~ failed => \A t \in Types : keys[t] # NoApiKey => c.provider[t] # "none",
         Rebind(h, c, keys), config' = c, stored' = keys, stale' = FALSE,
         UNCHANGED <<rag, openRags, closed, failed>>
  PROVE  ProvidersInv'
<1> DEFINE new == [at |-> "loads", own |-> built, oldRag |-> rag, old |-> manager]
<1>1. /\ config \in Configs \cup {Unreadable} /\ stored \in KeyStores
      /\ manager \in Managers \cup {NoManager} /\ rag \in Managers \cup {NoManager}
      /\ openRags \subseteq Managers /\ closed \subseteq Managers
      /\ handler \in [Handlers -> HandlerStates]
      /\ built \in 0..MaxReloads + 1
      /\ stale \in BOOLEAN /\ failed \in BOOLEAN /\ overlapped \in BOOLEAN
  BY ProvidersTypesAre DEF ProvidersInv
<1>2. /\ built < MaxReloads + 1
      /\ manager' = built /\ built' = built + 1
      /\ running' = RunsWith(c, keys) /\ defaultName' = Preferred(c)
      /\ handler' = [handler EXCEPT ![h] = new]
      /\ overlapped' = (overlapped \/ ~ Quiet)
  BY DEF Rebind, Old
<1>3. /\ built \in Managers /\ built + 1 \in 0..MaxReloads + 1 /\ built # NoManager
      /\ manager = built - 1 /\ built > 0
  BY <1>1, <1>2, ManagerFacts DEF ProvidersInv, ManagersInv
<1>4. new \in HandlerStates
  BY <1>1, <1>3 DEF HandlerStates
<1>5. /\ new.at = "loads" /\ new.own = built /\ new.oldRag = rag /\ new.old = manager
      /\ new # Waiting
  BY WaitingIs
<1> HIDE DEF new
<1>6. /\ handler' \in [Handlers -> HandlerStates] /\ handler'[h] = new
      /\ \A g \in Handlers : g # h => handler'[g] = handler[g]
  BY <1>1, <1>2, <1>4
<1>7. ProvidersTypeOK'
  <2>1. /\ manager' \in Managers \cup {NoManager} /\ rag' \in Managers \cup {NoManager}
        /\ openRags' \subseteq Managers /\ closed' \subseteq Managers
        /\ built' \in 0..MaxReloads + 1 /\ overlapped' \in BOOLEAN /\ failed' \in BOOLEAN
        /\ stale' \in BOOLEAN
    BY <1>1, <1>2, <1>3
  <2>2. /\ config' \in Configs \cup {Unreadable} /\ stored' \in KeyStores
        /\ running' \in [Types -> ApiKeys \cup {NoApiKey, NotRunning}]
        /\ defaultName' \in Types \cup {NoDefault}
    BY <1>2, RunsAre
  <2> QED BY <1>6, <2>1, <2>2, Zenon DEF ProvidersTypeOK, KeyStores, HandlerStates
<1>8. Up'
  BY <1>2, <1>3 DEF Up
<1>9. FilesInv'
  <2>1. c.is = "whole"
    BY RunsAre
  <2> QED BY <1>2, <2>1 DEF FilesInv, Has
<1>10. ManagersInv'
  <2>1. Replaced' = Replaced \cup {manager}
    BY <1>5, <1>6 DEF Replaced
  <2>2. closed \cup Replaced = 0..built - 2
    BY DEF ProvidersInv, ManagersInv
  <2>3. (0..built - 2) \cup {built - 1} = 0..(built + 1) - 2
    BY <1>1, <1>3, ManagerFacts
  <2>4. closed' \cup Replaced' = 0..built' - 2
    BY <1>2, <1>3, <2>1, <2>2, <2>3
  <2>5. \A g \in Handlers : handler'[g] # Waiting => handler'[g].own \in Managers
    BY <1>3, <1>5, <1>6 DEF ProvidersInv, ManagersInv
  <2> QED BY <1>1, <1>2, <1>3, <1>8, <2>4, <2>5, ManagerFacts DEF ManagersInv
<1>11. RagsInv'
  <2> SUFFICES ASSUME ~ overlapped'
               PROVE  /\ Quiet' => rag' \in {NoManager, manager'} /\ openRags' \subseteq {rag'}
                      /\ \A g \in Handlers : handler'[g] # Waiting =>
                            RagInv(g)' /\ \A f \in Handlers : handler'[f] # Waiting => f = g
    BY DEF RagsInv
  <2>1. ~ overlapped /\ Quiet
    BY <1>2
  <2>2. openRags \subseteq {rag}
    BY <2>1 DEF ProvidersInv, RagsInv
  <2>3. \A g \in Handlers : handler'[g] # Waiting <=> g = h
    BY <1>5, <1>6, <2>1 DEF Quiet
  <2>4. ~ Quiet'
    BY <2>3 DEF Quiet
  <2>5. RagInv(h)'
    BY <1>2, <1>5, <1>6, <2>2 DEF RagInv
  <2> QED BY <2>3, <2>4, <2>5
<1> QED BY <1>7, <1>9, <1>10, <1>11 DEF ProvidersInv

\* What a failed write leaves is of types, and the manager is stale.
LEMMA FailureKeepsProviders ==
  ASSUME ProvidersInv, NEW c \in Configs, config' \in LeftOf(c), stale' = TRUE, failed' = TRUE,
         UNCHANGED <<stored, manager, running, defaultName, rag, openRags, closed, handler,
                     built, overlapped>>
  PROVE  ProvidersInv'
<1>1. config' \in Configs \cup {Unreadable}
  <2>1. c.provider \in [Types -> {"none", "disabled", "enabled"}] /\ c.default \in Types \cup {NoDefault}
    BY DEF Configs
  <2>2. \A kept \in SUBSET Types :
          Config([t \in Types |-> IF t \in kept THEN c.provider[t] ELSE "none"], c.default) \in Configs
    BY <2>1 DEF Config, Configs
  <2>3. Config(NoProviders, NoDefault) \in Configs
    BY DEF Config, Configs, NoProviders
  <2> QED BY <2>2, <2>3 DEF LeftOf
<1>2. ProvidersTypeOK'
  BY <1>1 DEF ProvidersInv, ProvidersTypeOK
<1>3. FilesInv'
  BY DEF FilesInv
<1>4. ManagersInv' /\ RagsInv'
  BY DEF ProvidersInv, ManagersInv, RagsInv, RagInv, Up, Quiet, Replaced
<1> QED BY <1>2, <1>3, <1>4 DEF ProvidersInv

LEMMA SaveKeepsProviders ==
  ASSUME ProvidersInv, Up, NEW c \in Configs, NEW keyStores \in SUBSET KeyStores,
         ~ failed => \A keys \in keyStores, t \in Types : keys[t] # NoApiKey => c.provider[t] # "none",
         Save(c, keyStores)
  PROVE  ProvidersInv'
BY ReloadKeepsProviders, FailureKeepsProviders DEF Save

\* The console's handlers save a configuration, and the keys of its providers.
LEMMA HandlersKeepProviders ==
  ASSUME ProvidersInv, NEW t \in Types, NEW state \in {"enabled", "disabled"},
         \/ Create(t, state) \/ Update(t, state) \/ Switch(t, state)
         \/ Delete(t) \/ SetDefault(t) \/ RemoveKey(t)
  PROVE  ProvidersInv'
<1>1. Up /\ config.is = "whole"
  BY DEF Create, Update, Switch, Delete, SetDefault, RemoveKey, CanHandle
<1>2. config \in Configs
  BY <1>1, ProvidersTypesAre DEF ProvidersInv, Unreadable
<1>3. /\ config.provider \in [Types -> {"none", "disabled", "enabled"}]
      /\ config.default \in Types \cup {NoDefault}
  BY <1>2 DEF Configs
<1>4. stored \in KeyStores /\ (~ failed => \A u \in Types : stored[u] # NoApiKey => config.provider[u] # "none")
  BY ProvidersTypesAre DEF ProvidersInv, FilesInv, Has
<1> DEFINE c == [config EXCEPT !.provider[t] = state]
<1>5. c \in Configs /\ c.provider[t] = state /\ \A u \in Types : u # t => c.provider[u] = config.provider[u]
  BY <1>2, <1>3 DEF Configs
<1> HIDE DEF c
<1>6. /\ Keyed(t) \in SUBSET KeyStores
      /\ \A keys \in Keyed(t), u \in Types : u # t => keys[u] = stored[u]
  BY <1>4 DEF Keyed, KeyStores
<1>7. CASE Save(c, Keyed(t))
  <2>1. ~ failed => \A keys \in Keyed(t), u \in Types : keys[u] # NoApiKey => c.provider[u] # "none"
    BY <1>4, <1>5, <1>6
  <2> QED BY <1>1, <1>5, <1>6, <1>7, <2>1, SaveKeepsProviders, Zenon
<1>8. CASE Save(c, {stored})
  <2>1. ~ failed => \A keys \in {stored}, u \in Types : keys[u] # NoApiKey => c.provider[u] # "none"
    BY <1>4, <1>5
  <2>2. {stored} \in SUBSET KeyStores
    BY <1>4
  <2> QED BY <1>1, <1>5, <1>8, <2>1, <2>2, SaveKeepsProviders, Zenon
<1>9. Without(t) \in KeyStores /\ Without(t)[t] = NoApiKey
      /\ \A u \in Types : u # t => Without(t)[u] = stored[u]
  BY <1>4 DEF Without, KeyStores
<1>10. CASE Delete(t)
  <2> DEFINE d == Config([config.provider EXCEPT ![t] = "none"],
                         IF config.default = t THEN NoDefault ELSE config.default)
  <2>1. d \in Configs /\ \A u \in Types : u # t => d.provider[u] = config.provider[u]
    BY <1>3 DEF Config, Configs
  <2>2. Save(d, {Without(t)})
    BY <1>10 DEF Delete
  <2> HIDE DEF d
  <2>3. ~ failed => \A keys \in {Without(t)}, u \in Types : keys[u] # NoApiKey => d.provider[u] # "none"
    BY <1>4, <1>9, <2>1
  <2>4. {Without(t)} \in SUBSET KeyStores
    BY <1>9
  <2> QED BY <1>1, <2>1, <2>2, <2>3, <2>4, SaveKeepsProviders, Zenon
<1>11. CASE SetDefault(t)
  <2> DEFINE d == [config EXCEPT !.default = t]
  <2>1. d \in Configs /\ d.provider = config.provider
    BY <1>2, <1>3 DEF Configs
  <2>2. Save(d, {stored})
    BY <1>11 DEF SetDefault
  <2> HIDE DEF d
  <2>3. ~ failed => \A keys \in {stored}, u \in Types : keys[u] # NoApiKey => d.provider[u] # "none"
    BY <1>4, <2>1
  <2>4. {stored} \in SUBSET KeyStores
    BY <1>4
  <2> QED BY <1>1, <2>1, <2>2, <2>3, <2>4, SaveKeepsProviders, Zenon
<1>12. CASE RemoveKey(t)
  <2>1. /\ stored' = Without(t) /\ stale' = TRUE
        /\ UNCHANGED <<config, manager, running, defaultName, rag, openRags, closed, handler,
                       built, failed, overlapped>>
    BY <1>12 DEF RemoveKey
  <2>2. ProvidersTypeOK'
    BY <1>9, <2>1 DEF ProvidersInv, ProvidersTypeOK, KeyStores
  <2>3. FilesInv'
    BY <1>9, <2>1 DEF ProvidersInv, FilesInv, Has
  <2>4. ManagersInv' /\ RagsInv'
    BY <2>1 DEF ProvidersInv, ManagersInv, RagsInv, RagInv, Up, Quiet, Replaced
  <2> QED BY <2>2, <2>3, <2>4 DEF ProvidersInv
<1> QED BY <1>7, <1>8, <1>10, <1>11, <1>12 DEF Create, Update, Switch, c

\* What a handler does after its await.
LEMMA LoadKeepsProviders ==
  ASSUME ProvidersInv, NEW h \in Handlers, NEW ok \in BOOLEAN, LoadRag(h, ok)
  PROVE  ProvidersInv'
<1>1. /\ handler[h].at = "loads"
      /\ rag' = IF ok THEN handler[h].own ELSE NoManager
      /\ openRags' = IF ok THEN openRags \cup {handler[h].own} ELSE openRags
      /\ handler' = [handler EXCEPT ![h].at = "closes rag"]
      /\ UNCHANGED <<config, stored, manager, running, defaultName, closed, built,
                     stale, failed, overlapped>>
  BY DEF LoadRag
<1>2. handler \in [Handlers -> HandlerStates] /\ openRags \subseteq Managers
  BY ProvidersTypesAre DEF ProvidersInv
<1>3. /\ handler' \in [Handlers -> HandlerStates]
      /\ handler'[h].at = "closes rag" /\ handler'[h].old = handler[h].old
      /\ handler'[h].oldRag = handler[h].oldRag /\ handler'[h].own = handler[h].own
      /\ \A g \in Handlers : g # h => handler'[g] = handler[g]
  BY <1>1, <1>2 DEF HandlerStates
<1>4. /\ handler[h] # Waiting /\ handler'[h] # Waiting
      /\ \A g \in Handlers : handler'[g] # Waiting <=> handler[g] # Waiting
  BY <1>1, <1>3, WaitingIs
<1>5. handler[h].own \in Managers
  BY <1>4 DEF ProvidersInv, ManagersInv
<1>6. ProvidersTypeOK'
  BY <1>1, <1>2, <1>3, <1>5 DEF ProvidersInv, ProvidersTypeOK, HandlerStates
<1>7. FilesInv'
  BY <1>1 DEF ProvidersInv, FilesInv, Up, Has
<1>8. ManagersInv'
  <2>1. Replaced' = Replaced
    BY <1>3, <1>4 DEF Replaced
  <2>2. Quiet' = Quiet
    BY <1>4 DEF Quiet
  <2>3. \A g \in Handlers : handler'[g] # Waiting => handler'[g].own \in Managers
    BY <1>3, <1>4 DEF ProvidersInv, ManagersInv
  <2> QED BY <1>1, <2>1, <2>2, <2>3 DEF ProvidersInv, ManagersInv, Up
<1>9. RagsInv'
  <2> SUFFICES ASSUME ~ overlapped' PROVE RagsInv'
    BY DEF RagsInv
  <2>1. RagInv(h) /\ \A g \in Handlers : handler[g] # Waiting => g = h
    BY <1>1, <1>4 DEF ProvidersInv, RagsInv
  <2>2. RagInv(h)'
    BY <1>1, <1>3, <2>1 DEF RagInv
  <2>3. ~ Quiet'
    BY <1>4 DEF Quiet
  <2> QED BY <1>4, <2>1, <2>2, <2>3 DEF RagsInv
<1> QED BY <1>6, <1>7, <1>8, <1>9 DEF ProvidersInv

LEMMA CloseRagKeepsProviders ==
  ASSUME ProvidersInv, NEW h \in Handlers, CloseRag(h)
  PROVE  ProvidersInv'
<1>1. /\ handler[h].at = "closes rag"
      /\ openRags' = openRags \ {handler[h].oldRag}
      /\ handler' = [handler EXCEPT ![h].at = "closes manager"]
      /\ UNCHANGED <<config, stored, manager, running, defaultName, rag, closed, built,
                     stale, failed, overlapped>>
  BY DEF CloseRag
<1>2. handler \in [Handlers -> HandlerStates] /\ openRags \subseteq Managers
  BY ProvidersTypesAre DEF ProvidersInv
<1>3. /\ handler' \in [Handlers -> HandlerStates]
      /\ handler'[h].at = "closes manager" /\ handler'[h].old = handler[h].old
      /\ handler'[h].oldRag = handler[h].oldRag /\ handler'[h].own = handler[h].own
      /\ \A g \in Handlers : g # h => handler'[g] = handler[g]
  BY <1>1, <1>2 DEF HandlerStates
<1>4. /\ handler[h] # Waiting /\ handler'[h] # Waiting
      /\ \A g \in Handlers : handler'[g] # Waiting <=> handler[g] # Waiting
  BY <1>1, <1>3, WaitingIs
<1>5. ProvidersTypeOK'
  BY <1>1, <1>2, <1>3 DEF ProvidersInv, ProvidersTypeOK, HandlerStates
<1>6. FilesInv'
  BY <1>1 DEF ProvidersInv, FilesInv, Up, Has
<1>7. ManagersInv'
  <2>1. Replaced' = Replaced
    BY <1>3, <1>4 DEF Replaced
  <2>2. Quiet' = Quiet
    BY <1>4 DEF Quiet
  <2>3. \A g \in Handlers : handler'[g] # Waiting => handler'[g].own \in Managers
    BY <1>3, <1>4 DEF ProvidersInv, ManagersInv
  <2> QED BY <1>1, <2>1, <2>2, <2>3 DEF ProvidersInv, ManagersInv, Up
<1>8. RagsInv'
  <2> SUFFICES ASSUME ~ overlapped' PROVE RagsInv'
    BY DEF RagsInv
  <2>1. RagInv(h) /\ \A g \in Handlers : handler[g] # Waiting => g = h
    BY <1>1, <1>4 DEF ProvidersInv, RagsInv
  <2>2. RagInv(h)'
    BY <1>1, <1>3, <2>1 DEF RagInv
  <2>3. ~ Quiet'
    BY <1>4 DEF Quiet
  <2> QED BY <1>4, <2>1, <2>2, <2>3 DEF RagsInv
<1> QED BY <1>5, <1>6, <1>7, <1>8 DEF ProvidersInv

LEMMA CloseManagerKeepsProviders ==
  ASSUME ProvidersInv, NEW h \in Handlers, CloseManager(h)
  PROVE  ProvidersInv'
<1>1. /\ handler[h].at = "closes manager"
      /\ closed' = closed \cup {handler[h].old}
      /\ handler' = [handler EXCEPT ![h] = Waiting]
      /\ UNCHANGED <<config, stored, manager, running, defaultName, rag, openRags, built,
                     stale, failed, overlapped>>
  BY DEF CloseManager
<1>2. handler \in [Handlers -> HandlerStates] /\ handler[h] # Waiting
  BY <1>1, ProvidersTypesAre, WaitingIs DEF ProvidersInv
<1>3. /\ handler' \in [Handlers -> HandlerStates] /\ handler'[h] = Waiting
      /\ \A g \in Handlers : g # h => handler'[g] = handler[g]
  BY <1>1, <1>2, WaitingIs
<1>4. closed' \cup Replaced' = closed \cup Replaced
  BY <1>1, <1>2, <1>3 DEF Replaced
<1>5. closed \cup Replaced = 0..built - 2 /\ built \in 0..MaxReloads + 1
  BY DEF ProvidersInv, ManagersInv, ProvidersTypeOK
<1>6. closed' \subseteq Managers
  BY <1>4, <1>5, ManagerFacts
<1>7. ProvidersTypeOK'
  BY <1>1, <1>3, <1>6 DEF ProvidersInv, ProvidersTypeOK, HandlerStates
<1>8. FilesInv'
  BY <1>1 DEF ProvidersInv, FilesInv, Up, Has
<1>9. ManagersInv'
  <2>1. Up
    BY <1>2 DEF ProvidersInv, ManagersInv, Quiet
  <2> QED BY <1>1, <1>3, <1>4, <2>1 DEF ProvidersInv, ManagersInv, Up
<1>10. RagsInv'
  <2> SUFFICES ASSUME ~ overlapped' PROVE RagsInv'
    BY DEF RagsInv
  <2>1. RagInv(h) /\ \A g \in Handlers : handler[g] # Waiting => g = h
    BY <1>1, <1>2 DEF ProvidersInv, RagsInv
  <2>2. rag' \in {NoManager, manager'} /\ openRags' \subseteq {rag'}
    BY <1>1, <2>1 DEF RagInv
  <2>3. Quiet'
    BY <1>3, <2>1 DEF Quiet
  <2> QED BY <2>2, <2>3 DEF RagsInv, Quiet
<1> QED BY <1>7, <1>8, <1>9, <1>10 DEF ProvidersInv

\* The process ends, whatever was under way, and starts with what the files have.
LEMMA ProcessKeepsProviders ==
  ASSUME ProvidersInv, ProcessEnds \/ \E ok \in BOOLEAN : Start(ok)
  PROVE  ProvidersInv'
<1>1. CASE ProcessEnds
  <2>1. /\ manager' = NoManager /\ rag' = NoManager
        /\ running' = [t \in Types |-> NotRunning] /\ defaultName' = NoDefault
        /\ openRags' = {} /\ closed' = {}
        /\ handler' = [h \in Handlers |-> Waiting]
        /\ built' = 0 /\ overlapped' = FALSE
        /\ UNCHANGED <<config, stored, stale, failed>>
    BY <1>1 DEF ProcessEnds, Exit
  <2>2. handler' \in [Handlers -> HandlerStates] /\ \A h \in Handlers : handler'[h] = Waiting
    BY <2>1, WaitingIs
  <2>3. built' \in 0..MaxReloads + 1
    BY <2>1, ManagerFacts
  <2>4. ProvidersTypeOK'
    BY <2>1, <2>2, <2>3 DEF ProvidersInv, ProvidersTypeOK, HandlerStates
  <2>5. ~ Up' /\ Quiet' /\ Replaced' = {}
    BY <2>1, <2>2 DEF Up, Quiet, Replaced
  <2>6. FilesInv'
    BY <2>1, <2>5 DEF ProvidersInv, FilesInv, Has
  <2>7. ManagersInv'
    BY <2>1, <2>2, <2>5 DEF ManagersInv
  <2>8. RagsInv'
    BY <2>1, <2>2 DEF RagsInv
  <2> QED BY <2>4, <2>6, <2>7, <2>8 DEF ProvidersInv
<1>2. CASE \E ok \in BOOLEAN : Start(ok)
  <2>1. PICK ok \in BOOLEAN : Start(ok)
    BY <1>2
  <2>2. /\ ~ Up /\ config.is = "whole"
        /\ manager' = 0 /\ built' = 1
        /\ running' = RunsWith(config, stored) /\ defaultName' = Preferred(config)
        /\ rag' = (IF ok THEN 0 ELSE NoManager)
        /\ openRags' = (IF ok THEN {0} ELSE {})
        /\ stale' = FALSE
        /\ UNCHANGED <<config, stored, closed, handler, failed, overlapped>>
    BY <2>1 DEF Start
  <2>3. config \in Configs /\ stored \in KeyStores
    BY <2>2, ProvidersTypesAre DEF ProvidersInv, Unreadable
  <2>4. built' \in 0..MaxReloads + 1 /\ {0} \subseteq Managers
    BY <2>2, ManagerFacts
  <2>5. ProvidersTypeOK'
    <3>1. /\ running' \in [Types -> ApiKeys \cup {NoApiKey, NotRunning}]
          /\ defaultName' \in Types \cup {NoDefault}
      BY <2>2, <2>3, RunsAre
    <3> QED BY <2>2, <2>4, <3>1 DEF ProvidersInv, ProvidersTypeOK
  <2>6. FilesInv'
    BY <2>2 DEF ProvidersInv, FilesInv, Has
  <2>7. Up' /\ Quiet /\ Quiet' /\ Replaced = {} /\ Replaced' = {} /\ built = 0
    BY <2>2, ManagerFacts DEF ProvidersInv, ManagersInv, Up, Quiet, Replaced
  <2>8. ManagersInv'
    <3>1. closed = 0..-2
      BY <2>7 DEF ProvidersInv, ManagersInv
    <3>2. closed' \cup Replaced' = 0..built' - 2
      BY <2>2, <2>7, <3>1
    <3> QED BY <2>2, <2>7, <3>2 DEF ManagersInv, Quiet
  <2>9. RagsInv'
    BY <2>2, <2>7 DEF RagsInv, Quiet
  <2> QED BY <2>5, <2>6, <2>8, <2>9 DEF ProvidersInv
<1> QED BY <1>1, <1>2

LEMMA ProvidersStep == ProvidersInv /\ [ProvidersNext]_providerVars => ProvidersInv'
<1> SUFFICES ASSUME ProvidersInv, [ProvidersNext]_providerVars PROVE ProvidersInv'
  OBVIOUS
<1>1. CASE UNCHANGED providerVars
  <2>1. ProvidersTypeOK'
    BY <1>1 DEF providerVars, ProvidersInv, ProvidersTypeOK
  <2>2. FilesInv'
    BY <1>1 DEF providerVars, ProvidersInv, FilesInv, Up, Has
  <2>3. ManagersInv'
    BY <1>1 DEF providerVars, ProvidersInv, ManagersInv, Up, Quiet, Replaced
  <2>4. RagsInv'
    BY <1>1 DEF providerVars, ProvidersInv, RagsInv, RagInv, Quiet
  <2> QED BY <2>1, <2>2, <2>3, <2>4 DEF ProvidersInv
<1>2. CASE \E t \in Types : Delete(t) \/ SetDefault(t) \/ RemoveKey(t)
  <2>1. "enabled" \in {"enabled", "disabled"}
    OBVIOUS
  <2> QED BY <1>2, <2>1, HandlersKeepProviders
<1> QED BY <1>1, <1>2, HandlersKeepProviders, LoadKeepsProviders, CloseRagKeepsProviders,
           CloseManagerKeepsProviders, ProcessKeepsProviders DEF ProvidersNext

\* What the console shows of a provider, and who answers, when the manager runs
\* what the files have.
LEMMA RunningIsSaved ==
  ASSUME ProvidersInv, Up, ~ stale
  PROVE  /\ config \in Configs /\ stored \in KeyStores
         /\ \A t \in Types : IsRunning(t) <=> config.provider[t] = "enabled"
         /\ \A t \in Types : IsRunning(t) => running[t] = stored[t]
         /\ \A t \in Types : IsRunning(t) => (defaultName = t <=> config.default = t)
         /\ defaultName # NoDefault => IsRunning(defaultName) /\ defaultName \in Types
<1>1. /\ config.is = "whole" /\ running = RunsWith(config, stored) /\ defaultName = Preferred(config)
  BY DEF ProvidersInv, FilesInv
<1>2. config \in Configs /\ stored \in KeyStores
  BY <1>1, ProvidersTypesAre DEF ProvidersInv, Unreadable
<1>3. \A t \in Types : stored[t] # NotRunning
  <2>1. NoApiKey # NotRunning
    BY DEF NoApiKey, NotRunning
  <2> QED BY <1>2, <2>1, ProviderFacts DEF KeyStores
<1>4. \A t \in Types : IsRunning(t) <=> config.provider[t] = "enabled"
  BY <1>1, <1>3 DEF IsRunning, RunsWith
<1>5. \A t \in Types : IsRunning(t) => running[t] = stored[t]
  BY <1>1, <1>4 DEF RunsWith
<1>6. \A t \in Types : IsRunning(t) => (defaultName = t <=> config.default = t)
  BY <1>1, <1>4, ProviderFacts DEF Preferred
<1>7. \/ defaultName = NoDefault
      \/ IsRunning(defaultName) /\ defaultName \in Types
  BY <1>1, <1>4 DEF Preferred
<1> QED BY <1>2, <1>4, <1>5, <1>6, <1>7

LEMMA ConsoleFollows == ProvidersInv => ConsoleShowsWhoAnswers
<1> SUFFICES ASSUME ProvidersInv, Up, ~ stale PROVE ConsoleShowsWhoAnswers
  BY DEF ConsoleShowsWhoAnswers
<1>1. /\ config \in Configs /\ stored \in KeyStores
      /\ \A t \in Types : IsRunning(t) <=> config.provider[t] = "enabled"
      /\ \A t \in Types : IsRunning(t) => (defaultName = t <=> config.default = t)
      /\ defaultName # NoDefault => IsRunning(defaultName) /\ defaultName \in Types
  BY RunningIsSaved
<1>2. \A t \in Types : config.provider[t] \in {"none", "disabled", "enabled"}
  BY <1>1 DEF Configs
<1>3. ASSUME NEW t \in Types
      PROVE  /\ ListedAs(t) = DetailOf(t)
             /\ ListedAs(t) = IF Has(t)
                   THEN ConsoleEntry(config.provider[t] = "enabled", config.default = t,
                              stored[t] # NoApiKey)
                   ELSE NotListed
  <2>1. CASE config.provider[t] = "enabled"
    BY <1>1, <2>1 DEF ListedAs, DetailOf, Has, ConsoleEntry
  <2>2. CASE config.provider[t] = "disabled"
    BY <1>1, <2>2 DEF ListedAs, DetailOf, Has, DisabledEntry, ConsoleEntry
  <2>3. CASE config.provider[t] = "none"
    BY <1>1, <2>3 DEF ListedAs, DetailOf, Has
  <2> QED BY <1>2, <2>1, <2>2, <2>3
<1>4. ASSUME NEW able \in SUBSET Types
      PROVE  LET usable == {t \in able : config.provider[t] = "enabled"} IN
             /\ \A t \in usable : /\ ListedAs(t).default => ProviderFor(NoDefault, able) = {t}
                                  /\ ProviderFor(t, able) = {t}
             /\ ProviderFor(NoDefault, able) \subseteq usable
             /\ usable # {} => ProviderFor(NoDefault, able) # {}
  <2> DEFINE usable == {t \in able : config.provider[t] = "enabled"}
  <2>1. usable = {t \in able : IsRunning(t)}
    BY <1>1
  <2>2. NoDefault \notin able
    BY ProviderFacts
  <2>3. ProviderFor(NoDefault, able) = IF defaultName \in able THEN {defaultName} ELSE usable
    BY <2>1, <2>2 DEF ProviderFor
  <2>4. defaultName \in able => defaultName \in usable
    BY <1>1, <2>1, <2>2
  <2>5. ASSUME NEW t \in usable
        PROVE  /\ ListedAs(t).default => ProviderFor(NoDefault, able) = {t}
               /\ ProviderFor(t, able) = {t}
    <3>1. t \in Types /\ t \in able /\ IsRunning(t) /\ config.provider[t] = "enabled" /\ Has(t)
      BY <2>1 DEF Has
    <3>2. ListedAs(t).default = (config.default = t)
      BY <1>3, <3>1 DEF ConsoleEntry
    <3>3. config.default = t => ProviderFor(NoDefault, able) = {t}
      BY <1>1, <2>3, <3>1
    <3>4. ProviderFor(t, able) = {t}
      BY <3>1 DEF ProviderFor
    <3> QED BY <3>2, <3>3, <3>4
  <2> HIDE DEF usable
  <2>6. ProviderFor(NoDefault, able) \subseteq usable
    BY <2>3, <2>4
  <2>7. usable # {} => ProviderFor(NoDefault, able) # {}
    BY <2>3
  <2> QED BY <2>5, <2>6, <2>7 DEF usable
<1>5. ASSUME NEW able \in SUBSET Types, NEW declared \in SUBSET able
      PROVE  LET usable == {t \in able : config.provider[t] = "enabled"}
                 chosen == EmbedderFor(NoDefault, declared, able)
             IN  chosen \subseteq usable /\ (usable # {} => chosen # {})
  <2>1. declared \in SUBSET Types
    OBVIOUS
  <2>2. EmbedderFor(NoDefault, declared, able) =
          IF ProviderFor(NoDefault, declared) = {} THEN ProviderFor(NoDefault, able)
          ELSE ProviderFor(NoDefault, declared)
    BY DEF EmbedderFor, DetectRuntime
  <2>3. ProviderFor(NoDefault, declared) \subseteq {t \in declared : config.provider[t] = "enabled"}
    BY <1>4, <2>1
  <2>4. /\ ProviderFor(NoDefault, able) \subseteq {t \in able : config.provider[t] = "enabled"}
        /\ {t \in able : config.provider[t] = "enabled"} # {} => ProviderFor(NoDefault, able) # {}
    BY <1>4
  <2> QED BY <2>2, <2>3, <2>4
<1> QED BY <1>3, <1>4, <1>5 DEF ConsoleShowsWhoAnswers

LEMMA TestsFollow == ProvidersInv => TestsTellTheTruth
<1> SUFFICES ASSUME ProvidersInv, Up, ~ stale,
                    NEW t \in {u \in Types : config.provider[u] = "enabled"},
                    NEW accepts \in SUBSET (ApiKeys \cup {NoApiKey}), NEW rest \in ProbeErrors,
                    NEW words \in Words
             PROVE  LET live == UpstreamSays(running[t], accepts, rest)
                        test == TestOf(t, NoApiKey, TRUE, accepts, rest, words)
                    IN  /\ test = "ok" <=> live = "none"
                        /\ test = "authentication_failed" <=> live = "authentication"
  BY DEF TestsTellTheTruth
<1> DEFINE live == UpstreamSays(running[t], accepts, rest)
<1>1. running[t] = stored[t]
  BY RunningIsSaved
<1>2. TestOf(t, NoApiKey, TRUE, accepts, rest, words) = CategoryOf(live, words)
  BY <1>1 DEF TestOf, TestKey
<1>3. /\ CategoryOf(live, words) = "ok" <=> live = "none"
      /\ CategoryOf(live, words) = "authentication_failed" <=> live = "authentication"
  <2> HIDE DEF live
  <2> QED BY DEF CategoryOf
<1> QED BY <1>2, <1>3

\* What the console saved is what it shows and what answers: the manager in use
\* runs the providers with the keys that are stored, earlier managers are closed
\* and no RAG service is left behind, whatever handlers overlap, fail halfway or
\* are cut short by the end of the process (reload_provider_manager, get_for_capability,
\* test_provider_chat).
THEOREM ProvidersStayCurrent == Spec => []ProvidersAreCurrent
<1>1. Init => ProvidersInv
  BY PartSteps, ProvidersInitInv
<1>2. ProvidersInv /\ [Next]_vars => ProvidersInv'
  BY PartSteps, ProvidersStep
<1>3. ProvidersInv => ProvidersAreCurrent
  <2> SUFFICES ASSUME ProvidersInv PROVE ProvidersAreCurrent
    OBVIOUS
  <2>1. ManagerIsCurrent
    BY DEF ProvidersInv, FilesInv, ManagerIsCurrent
  <2>2. RagUsesTheManager
    <3>1. Quiet => Replaced = {}
      BY DEF Quiet, Replaced
    <3> QED BY <3>1 DEF ProvidersInv, ManagersInv, RagsInv, RagUsesTheManager
  <2> QED BY <2>1, <2>2, ConsoleFollows, TestsFollow DEF ProvidersAreCurrent
<1> QED BY <1>1, <1>2, <1>3, PTL DEF Spec

-----------------------------------------------------------------------------
(* The knowledge base.                                                     *)

RunStates == [on : BOOLEAN, todo : SUBSET Refs, seen : SUBSET Refs,
              read : Contents \cup {None}, alone : BOOLEAN]

\* A run over files that stay as they are has listed and read them as they are.
Fresh(x) ==
    /\ x.todo \cup x.seen = {r \in Refs : file[r] # None}
    /\ x.read # None => \A r \in x.todo : (\A q \in x.todo : r <= q) => file[r] = x.read

RunIsSound(x) ==
    /\ ~ x.on => x = NoRun
    /\ x.on => up /\ x.todo # {}
    /\ x.on /\ (x.alone \/ calm > 0) => Fresh(x)

RunsInv == \A u \in Runs :
    RunIsSound(run[u]) /\ (run[u].alone => \A v \in Runs : run[v].on => v = u)

\* Documents that are stored for some references are what their files hold; what
\* their files hold is stored for some reference.
Follows(documents, refs) == \A r \in refs : documents[r] \in {None, file[r]}
Covers(documents, refs) == \A r \in refs : file[r] # None => \E q \in Refs : documents[q] = file[r]

\* A first run alone stores no content but the files', a second one all of them.
ConvergeInv ==
    /\ calm > 0 => up /\ Follows(index, Refs)
    /\ calm = 2 => Covers(index, Refs)
    /\ \A u \in Runs : run[u].on /\ run[u].alone =>
          Follows(index, run[u].seen) /\ (calm > 0 => Covers(index, run[u].seen))

KnowledgeInv == KnowledgeTypeOK /\ RunsInv /\ ConvergeInv /\ RestartFindsIndex

LEMMA KnowledgeTypesAre ==
    KnowledgeTypeOK <=>
        /\ file \in Indexes /\ index \in Indexes
        /\ up \in BOOLEAN
        /\ disk \in [is : {"whole"}, documents : Indexes] \cup {Torn}
        /\ run \in [Runs -> RunStates]
        /\ calm \in 0..2
BY Zenon DEF KnowledgeTypeOK, RunStates

\* What a run reads next is the first of what it has yet to read.
LEMMA NextIsLeast ==
    ASSUME KnowledgeTypeOK, NEW u \in Runs, run[u].todo # {}
    PROVE  /\ NextRef(u) \in run[u].todo /\ NextRef(u) \in Refs
           /\ \A q \in run[u].todo : NextRef(u) <= q
<1> DEFINE S == run[u].todo
<1>1. S \in SUBSET Refs
  BY KnowledgeTypesAre DEF RunStates
<1>2. S \in SUBSET Nat
  BY <1>1, KnowledgeIndexAssumption
<1>3. \E r \in S : \A q \in S : r <= q
  BY <1>2, LeastExists
<1>4. NextRef(u) = CHOOSE r \in S : \A q \in S : r <= q
  BY DEF NextRef
<1> HIDE DEF S
<1>5. NextRef(u) \in S /\ \A q \in S : NextRef(u) <= q
  BY <1>3, <1>4, Zenon
<1> QED BY <1>1, <1>5 DEF S

WholeFiles == {Whole(documents) : documents \in Indexes}

LEMMA IndexTypes ==
    /\ WholeFiles \subseteq [is : {"whole"}, documents : Indexes]
    /\ NoDocuments \in Indexes /\ Torn.is # "whole"
    /\ \A documents \in Indexes : /\ Whole(documents) \in [is : {"whole"}, documents : Indexes]
                                  /\ Whole(documents).documents = documents
    /\ NoRun \in RunStates /\ ~ NoRun.on /\ ~ NoRun.alone
<1>1. WholeFiles \subseteq [is : {"whole"}, documents : Indexes]
  <2> HIDE DEF Indexes
  <2> QED BY DEF WholeFiles, Whole
<1>2. NoDocuments \in Indexes
  BY DEF NoDocuments, Indexes
<1>3. Torn.is # "whole"
  BY DEF Torn
<1>4. \A documents \in Indexes : /\ Whole(documents) \in [is : {"whole"}, documents : Indexes]
                                 /\ Whole(documents).documents = documents
  BY DEF Whole
<1>5. NoRun \in RunStates /\ ~ NoRun.on /\ ~ NoRun.alone
  BY DEF NoRun, RunStates
<1> QED BY <1>1, <1>2, <1>3, <1>4, <1>5, Zenon

\* What is saved one document after the other ends without those that are gone.
Remaining(documents, gone) == [r \in Refs |-> IF r \in gone THEN None ELSE documents[r]]

LEMMA SavesAre ==
    ASSUME index \in Indexes, NEW documents \in Indexes, NEW gone \in SUBSET Refs,
           NEW order \in SetToSeqs(gone)
    PROVE  /\ Saves(documents, order) \in Seq(Indexes)
           /\ Saves(documents, order) = <<>> => index = Remaining(documents, gone)
           /\ Saves(documents, order) # <<>> =>
                 Last(Saves(documents, order)) = Remaining(documents, gone)
           /\ Remaining(documents, gone) \in Indexes
<1> DEFINE n == Cardinality(gone)
           D == 1..n
           first == IF documents = index THEN <<>> ELSE <<documents>>
           After(i) == [r \in Refs |-> IF \E h \in 1..i : order[h] = r THEN None ELSE documents[r]]
           rest == [i \in 1..Len(order) |-> After(i)]
<1>1. IsFiniteSet(gone)
  BY KnowledgeIndexAssumption, FS_Subset
<1>2. n \in Nat
  BY <1>1, FS_CardinalityType
<1>3. IsFiniteSet(D) /\ Cardinality(D) = n
  BY <1>2, FS_Interval
<1>4. order \in [D -> gone] /\ \A i, j \in D : i # j => order[i] # order[j]
  BY DEF SetToSeqs
<1>5. \A r : r \in gone <=> \E h \in D : order[h] = r
  <2> HIDE DEF D
  <2>1. order \in Injection(D, gone)
    BY <1>4 DEF Injection, IsInjective
  <2>2. order \in Surjection(D, gone)
    BY <1>1, <1>3, <2>1, FS_Injection
  <2> QED BY <1>4, <2>2 DEF Surjection
<1>6. Len(order) = n
  BY <1>2, <1>4
<1>7. \A i : After(i) \in Indexes
  BY DEF Indexes
<1>8. Remaining(documents, gone) \in Indexes
  BY DEF Indexes, Remaining
<1>9. After(n) = Remaining(documents, gone)
  BY <1>5 DEF Remaining
<1>10. Saves(documents, order) = first \o rest
  BY DEF Saves
<1> HIDE DEF After
<1>11. rest \in Seq(Indexes) /\ Len(rest) = n /\ (n > 0 => rest[n] = After(n))
  BY <1>2, <1>6, <1>7
<1>12. first \in Seq(Indexes) /\ Len(first) \in {0, 1}
  OBVIOUS
<1> HIDE DEF rest
<1>13. CASE n = 0
  <2>1. rest = <<>> /\ first \o rest = first
    <3>1. rest = <<>>
      BY <1>11, <1>13
    <3> HIDE DEF first
    <3> QED BY <1>12, <3>1
  <2>2. gone = {}
    BY <1>5, <1>13
  <2>3. Remaining(documents, gone) = documents
    BY <2>2 DEF Remaining, Indexes
  <2>4. documents # index => first = <<documents>> /\ Last(first) = documents
    BY DEF Last
  <2>5. documents = index => first = <<>>
    OBVIOUS
  <2> QED BY <1>8, <1>10, <1>12, <2>1, <2>3, <2>4, <2>5
<1>14. CASE n > 0
  <2> HIDE DEF first
  <2>1. Len(first \o rest) = Len(first) + n /\ (first \o rest)[Len(first) + n] = rest[n]
        /\ first \o rest \in Seq(Indexes)
    BY <1>2, <1>11, <1>12, <1>14
  <2>2. Last(first \o rest) = rest[n] /\ first \o rest # <<>>
    BY <1>2, <1>12, <1>14, <2>1 DEF Last
  <2> QED BY <1>8, <1>9, <1>10, <1>11, <1>14, <2>1, <2>2
<1> QED BY <1>2, <1>13, <1>14

\* The three ways a run's changes are saved: all of them, or some, before a write
\* fails or the process dies.
LEMMA PersistIs ==
    ASSUME index \in Indexes, NEW u \in Runs, NEW documents \in Indexes, NEW gone \in SUBSET Refs,
           NEW order \in SetToSeqs(gone), NEW after, Persist(u, Saves(documents, order), after)
    PROVE  \/ /\ index' = Remaining(documents, gone)
              /\ (disk' = disk /\ index' = index) \/ disk' = Whole(index')
              /\ run' = [run EXCEPT ![u] = after]
              /\ calm' = IF after.on THEN calm
                         ELSE IF ~ run[u].alone THEN 0
                         ELSE IF calm = 2 THEN 2 ELSE calm + 1
              /\ up' = up
           \/ /\ index' \in Indexes /\ disk' = Torn /\ up' = up /\ calm' = 0
              /\ run' = [run EXCEPT ![u] = NoRun]
           \/ Dies /\ disk' \in {Torn} \cup WholeFiles
<1> DEFINE saves == Saves(documents, order)
<1>1. /\ saves \in Seq(Indexes)
      /\ saves = <<>> => index = Remaining(documents, gone)
      /\ saves # <<>> => Last(saves) = Remaining(documents, gone)
  BY SavesAre
<1>2. Persist(u, saves, after)
  OBVIOUS
<1> HIDE DEF saves
<1>3. \A k \in 1..Len(saves) : saves[k] \in Indexes
  BY <1>1
<1>4. {Whole(saves[k]) : k \in 1..Len(saves)} \subseteq WholeFiles
  BY <1>3 DEF WholeFiles
<1>5. CASE /\ index' = IF saves = <<>> THEN index ELSE Last(saves)
           /\ disk' = IF saves = <<>> THEN disk ELSE OnDisk(saves)
           /\ run' = [run EXCEPT ![u] = after]
           /\ calm' = IF after.on THEN calm
                      ELSE IF ~ run[u].alone THEN 0
                      ELSE IF calm = 2 THEN 2 ELSE calm + 1
           /\ UNCHANGED up
  <2>1. index' = Remaining(documents, gone)
    BY <1>1, <1>5
  <2>2. (disk' = disk /\ index' = index) \/ disk' = Whole(index')
    BY <1>5 DEF OnDisk
  <2> QED BY <1>5, <2>1, <2>2
<1>6. CASE /\ \E k \in 1..Len(saves) : index' = saves[k]
           /\ disk' = Torn
           /\ run' = [run EXCEPT ![u] = NoRun]
           /\ calm' = 0
           /\ UNCHANGED up
  BY <1>3, <1>6
<1>7. CASE saves # <<>> /\ Dies /\ disk' \in {Torn} \cup {Whole(saves[k]) : k \in 1..Len(saves)}
  BY <1>4, <1>7
<1> QED BY <1>2, <1>5, <1>6, <1>7, Zenon DEF Persist

\* The end of the process, and a write that fails, leave nothing to follow.
LEMMA DeathKeepsKnowledge ==
    ASSUME KnowledgeInv, Dies, disk' \in {Torn, disk} \cup WholeFiles,
           UNCHANGED file
    PROVE  KnowledgeInv'
<1>1. /\ up' = FALSE /\ index' = NoDocuments /\ run' = [v \in Runs |-> NoRun] /\ calm' = 0
  BY DEF Dies
<1>2. KnowledgeTypeOK'
  <2>1. disk' \in [is : {"whole"}, documents : Indexes] \cup {Torn}
    BY IndexTypes, KnowledgeTypesAre DEF KnowledgeInv
  <2>2. run' \in [Runs -> RunStates] /\ index' \in Indexes /\ file' \in Indexes
    <3>1. NoRun \in RunStates /\ NoDocuments \in Indexes
      BY IndexTypes
    <3>2. file' \in Indexes
      BY KnowledgeTypesAre DEF KnowledgeInv
    <3> QED BY <1>1, <3>1, <3>2
  <2>3. up' \in BOOLEAN
    BY <1>1, Zenon
  <2>4. calm' \in 0..2
    BY <1>1
  <2> QED BY <2>1, <2>2, <2>3, <2>4, Zenon DEF KnowledgeTypeOK, RunStates
<1>3. \A v \in Runs : run'[v] = NoRun
  BY <1>1
<1>4. RunsInv'
  BY <1>3, IndexTypes DEF RunsInv, RunIsSound
<1>5. ConvergeInv'
  BY <1>1, <1>3, IndexTypes DEF ConvergeInv
<1>6. RestartFindsIndex'
  BY <1>1 DEF RestartFindsIndex
<1> QED BY <1>2, <1>4, <1>5, <1>6 DEF KnowledgeInv

\* Nobody else is under way when a run alone is.
NobodyElse(u) == \A v \in Runs : run[v].on /\ run[v].alone => v = u

\* A run that ends, when the others are not alone: what it leaves is what two runs
\* in a row converge to, if it counts as one.
LEMMA EndKeepsKnowledge ==
    ASSUME KnowledgeInv, NEW u \in Runs, NobodyElse(u),
           run' = [run EXCEPT ![u] = NoRun], UNCHANGED <<file, up>>,
           index' \in Indexes, calm' \in 0..2,
           \/ disk' = disk /\ index' = index
           \/ disk' = Torn
           \/ disk' = Whole(index'),
           calm' > 0 => /\ up /\ Follows(index', Refs)
                        /\ \A v \in Runs : run[v].on => v = u,
           calm' = 2 => Covers(index', Refs)
    PROVE  KnowledgeInv'
<1>1. /\ disk \in [is : {"whole"}, documents : Indexes] \cup {Torn}
      /\ run \in [Runs -> RunStates] /\ file' \in Indexes /\ up' \in BOOLEAN
  BY KnowledgeTypesAre DEF KnowledgeInv
<1>2. run'[u] = NoRun /\ \A v \in Runs : v # u => run'[v] = run[v]
  BY <1>1
<1>3. KnowledgeTypeOK'
  <2>1. disk' \in [is : {"whole"}, documents : Indexes] \cup {Torn}
    BY <1>1, IndexTypes
  <2>2. run' \in [Runs -> RunStates]
    BY <1>1, IndexTypes
  <2> QED BY <1>1, <2>1, <2>2, Zenon DEF KnowledgeTypeOK, RunStates
<1>4. \A v \in Runs : v # u /\ run[v].on => ~ run[v].alone
  BY DEF NobodyElse
<1>5. RunsInv'
  <2> SUFFICES ASSUME NEW v \in Runs
               PROVE  /\ RunIsSound(run[v])'
                      /\ run'[v].alone => \A w \in Runs : run'[w].on => w = v
    BY DEF RunsInv
  <2>1. /\ RunIsSound(run[v])
        /\ run[v].alone => \A w \in Runs : run[w].on => w = v
    BY DEF KnowledgeInv, RunsInv
  <2>2. CASE ~ run'[v].on
    <3>1. run'[v] = NoRun
      BY <1>2, <2>1, <2>2 DEF RunIsSound
    <3> QED BY <3>1, IndexTypes DEF RunIsSound
  <2>3. CASE run'[v].on
    <3>1. v # u /\ run'[v] = run[v] /\ ~ run[v].alone
      BY <1>2, <1>4, <2>3, IndexTypes
    <3>2. calm' = 0
      BY <1>2, <2>3, <3>1
    <3> QED BY <2>1, <2>3, <3>1, <3>2 DEF RunIsSound
  <2> QED BY <2>2, <2>3
<1>6. ConvergeInv'
  <2>1. \A v \in Runs : ~ (run'[v].on /\ run'[v].alone)
    BY <1>2, <1>4, IndexTypes
  <2>2. calm' > 0 => Follows(index, Refs)'
    BY DEF Follows
  <2>3. calm' = 2 => Covers(index, Refs)'
    BY DEF Covers
  <2> QED BY <2>1, <2>2, <2>3 DEF ConvergeInv
<1>7. RestartFindsIndex'
  BY IndexTypes DEF KnowledgeInv, RestartFindsIndex
<1> QED BY <1>3, <1>5, <1>6, <1>7 DEF KnowledgeInv

LEMMA StartKeepsKnowledge ==
    ASSUME KnowledgeInv, NEW u \in Runs, StartRun(u)
    PROVE  KnowledgeInv'
<1> DEFINE refs == {r \in Refs : file[r] # None}
           alone == \A v \in Runs : ~ run[v].on
           started == [on |-> TRUE, todo |-> refs, seen |-> {}, read |-> None, alone |-> alone]
           Joined(x) == [x EXCEPT !.alone = FALSE]
<1>1. /\ up /\ ~ run[u].on /\ refs # {}
      /\ run' = Alone([run EXCEPT ![u] = started], u)
      /\ UNCHANGED <<file, up, index, disk, calm>>
  BY DEF StartRun
<1>2. run \in [Runs -> RunStates]
  BY KnowledgeTypesAre DEF KnowledgeInv
<1>3. /\ started \in RunStates /\ started.on /\ started.todo = refs /\ started.seen = {}
      /\ started.read = None /\ (started.alone <=> alone)
  BY DEF RunStates
<1>4. \A x \in RunStates : /\ Joined(x) \in RunStates /\ ~ Joined(x).alone
                           /\ Joined(x).on = x.on /\ Joined(x).todo = x.todo
                           /\ Joined(x).seen = x.seen /\ Joined(x).read = x.read
  BY DEF RunStates
<1> HIDE DEF refs, alone, started, Joined
<1>5. /\ run'[u] = started
      /\ \A v \in Runs : v # u => run'[v] = IF run[v].on THEN Joined(run[v]) ELSE run[v]
  BY <1>1, <1>2, <1>3 DEF Alone, Joined
<1>6. run' \in [Runs -> RunStates]
  <2>1. \A v \in Runs : run'[v] \in RunStates
    BY <1>2, <1>3, <1>4, <1>5
  <2>2. run' = [v \in Runs |-> run'[v]]
    BY <1>1 DEF Alone
  <2> QED BY <2>1, <2>2
<1>7. KnowledgeTypeOK'
  BY <1>1, <1>6, Zenon DEF KnowledgeInv, KnowledgeTypeOK, RunStates
<1>8. \A v \in Runs : /\ RunIsSound(run[v])
                      /\ run[v].alone => \A w \in Runs : run[w].on => w = v
  BY DEF KnowledgeInv, RunsInv
<1>9. \A v \in Runs : v # u => ~ run'[v].alone
  BY <1>2, <1>4, <1>5, <1>8, IndexTypes DEF RunIsSound
<1>10. RunsInv'
  <2> SUFFICES ASSUME NEW v \in Runs
               PROVE  /\ RunIsSound(run[v])'
                      /\ run'[v].alone => \A w \in Runs : run'[w].on => w = v
    BY DEF RunsInv
  <2>1. CASE v = u
    <3>1. Fresh(run[u])'
      BY <1>1, <1>3, <1>5 DEF Fresh, refs
    <3>2. RunIsSound(run[u])'
      BY <1>1, <1>3, <1>5, <3>1 DEF RunIsSound
    <3>3. alone => \A w \in Runs : run'[w].on => w = u
      BY <1>5 DEF alone
    <3> QED BY <1>3, <1>5, <2>1, <3>2, <3>3
  <2>2. CASE v # u /\ run[v].on
    <3>1. run'[v] = Joined(run[v]) /\ ~ run'[v].alone
      BY <1>5, <1>9, <2>2
    <3>2. /\ run'[v].on = run[v].on /\ run'[v].todo = run[v].todo
          /\ run'[v].seen = run[v].seen /\ run'[v].read = run[v].read
      BY <1>2, <1>4, <3>1
    <3>3. Fresh(run[v]) => Fresh(run[v])'
      BY <1>1, <3>2 DEF Fresh
    <3> QED BY <1>1, <1>8, <2>2, <3>1, <3>2, <3>3 DEF RunIsSound
  <2>3. CASE v # u /\ ~ run[v].on
    <3>1. run'[v] = NoRun
      BY <1>5, <1>8, <2>3 DEF RunIsSound
    <3> QED BY <3>1, IndexTypes DEF RunIsSound
  <2> QED BY <2>1, <2>2, <2>3
<1>11. ConvergeInv'
  <2>1. /\ calm' > 0 => up' /\ Follows(index, Refs)'
        /\ calm' = 2 => Covers(index, Refs)'
    BY <1>1 DEF KnowledgeInv, ConvergeInv, Follows, Covers
  <2>2. \A v \in Runs : run'[v].alone => run'[v].seen = {}
    BY <1>3, <1>5, <1>9
  <2> QED BY <2>1, <2>2 DEF ConvergeInv, Follows, Covers
<1>12. RestartFindsIndex'
  BY <1>1 DEF KnowledgeInv, RestartFindsIndex
<1> QED BY <1>7, <1>10, <1>11, <1>12 DEF KnowledgeInv

LEMMA NothingKeepsKnowledge ==
    ASSUME KnowledgeInv, NEW u \in Runs, RunOverNothing(u)
    PROVE  KnowledgeInv'
<1>1. /\ up /\ ~ run[u].on /\ file = NoDocuments /\ UNCHANGED file
  BY DEF RunOverNothing
<1>2. PICK order \in SetToSeqs(Unseen(index, {})) : Persist(u, Saves(index, order), NoRun)
  BY DEF RunOverNothing
<1> DEFINE gone == Unseen(index, {})
<1>3. index \in Indexes /\ gone \in SUBSET Refs
  BY KnowledgeTypesAre DEF KnowledgeInv, Unseen
<1>4. Remaining(index, gone) \in Indexes
  BY <1>3 DEF Indexes, Remaining
<1>5. run[u] = NoRun /\ ~ run[u].alone
  BY <1>1, IndexTypes DEF KnowledgeInv, RunsInv, RunIsSound
<1> HIDE DEF gone
<1>6. NobodyElse(u)
  <2> SUFFICES ASSUME NEW v \in Runs, run[v].on, run[v].alone PROVE FALSE
    BY DEF NobodyElse
  <2>1. /\ run[v].todo # {}
        /\ run[v].todo \cup run[v].seen = {r \in Refs : file[r] # None}
    BY DEF KnowledgeInv, RunsInv, RunIsSound, Fresh
  <2>2. \A r \in Refs : file[r] = None
    BY <1>1 DEF NoDocuments
  <2> QED BY <2>1, <2>2
<1>7. CASE /\ index' = Remaining(index, gone)
           /\ (disk' = disk /\ index' = index) \/ disk' = Whole(index')
           /\ run' = [run EXCEPT ![u] = NoRun] /\ calm' = 0 /\ up' = up
  <2>1. UNCHANGED <<file, up>> /\ index' \in Indexes /\ calm' \in 0..2 /\ ~ (calm' > 0) /\ calm' # 2
    BY <1>1, <1>4, <1>7
  <2> QED BY <1>6, <1>7, <2>1, EndKeepsKnowledge, Zenon
<1>8. CASE /\ index' \in Indexes /\ disk' = Torn /\ up' = up /\ calm' = 0
           /\ run' = [run EXCEPT ![u] = NoRun]
  <2>1. UNCHANGED <<file, up>> /\ calm' \in 0..2 /\ ~ (calm' > 0) /\ calm' # 2
    BY <1>1, <1>8
  <2> QED BY <1>6, <1>8, <2>1, EndKeepsKnowledge, Zenon
<1>9. CASE Dies /\ disk' \in {Torn} \cup WholeFiles
  BY <1>1, <1>9, DeathKeepsKnowledge
<1>10. Persist(u, Saves(index, order), NoRun) /\ order \in SetToSeqs(gone)
  BY <1>2 DEF gone
<1> QED BY <1>3, <1>5, <1>7, <1>8, <1>9, <1>10, PersistIs, IndexTypes

LEMMA LoadKeepsKnowledge ==
    ASSUME KnowledgeInv, NEW u \in Runs, Load(u)
    PROVE  KnowledgeInv'
<1> DEFINE r == NextRef(u)
           x == [run[u] EXCEPT !.read = file[r]]
<1>1. run[u].on /\ run[u].read = None /\ UNCHANGED <<file, up, index, disk>>
  BY DEF Load
<1>2. /\ run \in [Runs -> RunStates] /\ file \in Indexes /\ index \in Indexes /\ calm \in 0..2
  BY KnowledgeTypesAre DEF KnowledgeInv
<1>3. \A v \in Runs : /\ RunIsSound(run[v])
                      /\ run[v].alone => \A w \in Runs : run[w].on => w = v
  BY DEF KnowledgeInv, RunsInv
<1>4. /\ r \in run[u].todo /\ r \in Refs
      /\ \A q \in run[u].todo : r <= q
  BY <1>1, <1>3, NextIsLeast DEF KnowledgeInv, RunIsSound
<1>5. CASE run' = [run EXCEPT ![u] = NoRun] /\ calm' = 0
  <2>1. NobodyElse(u)
    BY <1>1, <1>3 DEF NobodyElse
  <2>2. UNCHANGED <<file, up>> /\ index' \in Indexes /\ calm' \in 0..2 /\ disk' = disk /\ index' = index
    BY <1>1, <1>2, <1>5
  <2>3. ~ (calm' > 0) /\ calm' # 2
    BY <1>5
  <2> QED BY <1>5, <2>1, <2>2, <2>3, EndKeepsKnowledge, Zenon
<1>6. CASE run' = [run EXCEPT ![u] = x] /\ UNCHANGED calm
  <2>1. /\ x \in RunStates /\ x.on = run[u].on /\ x.todo = run[u].todo /\ x.seen = run[u].seen
        /\ x.alone = run[u].alone /\ x.read = file[r]
    BY <1>2, <1>4 DEF RunStates, Indexes
  <2> HIDE DEF x
  <2>2. /\ run' \in [Runs -> RunStates] /\ run'[u] = x
        /\ \A v \in Runs : v # u => run'[v] = run[v]
    BY <1>2, <1>6, <2>1
  <2>3. \A v \in Runs : /\ run'[v].on = run[v].on /\ run'[v].alone = run[v].alone
                        /\ run'[v].seen = run[v].seen /\ run'[v].todo = run[v].todo
    BY <2>1, <2>2
  <2>4. KnowledgeTypeOK'
    BY <1>1, <1>6, <2>2, Zenon DEF KnowledgeInv, KnowledgeTypeOK, RunStates
  <2>5. \A v \in Runs : Fresh(run[v]) => Fresh(run[v])'
    <3> SUFFICES ASSUME NEW v \in Runs, Fresh(run[v]) PROVE Fresh(run[v])'
      OBVIOUS
    <3>1. CASE v # u
      BY <1>1, <2>2, <3>1 DEF Fresh
    <3>2. CASE v = u
      <4>1. run[u].todo \subseteq Nat
        BY <1>2, KnowledgeIndexAssumption DEF RunStates
      <4>2. \A q \in run[u].todo : (\A s \in run[u].todo : q <= s) => q = r
        BY <1>4, <4>1
      <4> HIDE DEF r
      <4> QED BY <1>1, <2>1, <2>2, <3>2, <4>2 DEF Fresh
    <3> QED BY <3>1, <3>2
  <2>6. \A v \in Runs : RunIsSound(run[v])'
    <3> SUFFICES ASSUME NEW v \in Runs PROVE RunIsSound(run[v])'
      OBVIOUS
    <3>1. CASE v # u
      BY <1>1, <1>3, <1>6, <2>2, <2>5, <3>1 DEF RunIsSound
    <3>2. CASE v = u
      BY <1>1, <1>3, <1>6, <2>3, <2>5, <3>2 DEF RunIsSound
    <3> QED BY <3>1, <3>2
  <2>7. RunsInv'
    BY <1>3, <2>3, <2>6 DEF RunsInv
  <2>8. ConvergeInv'
    BY <1>1, <1>6, <2>3 DEF KnowledgeInv, ConvergeInv, Follows, Covers
  <2>9. RestartFindsIndex'
    BY <1>1 DEF KnowledgeInv, RestartFindsIndex
  <2> QED BY <2>4, <2>7, <2>8, <2>9 DEF KnowledgeInv
<1> QED BY <1>5, <1>6 DEF Load

\* What is ingested as its file holds it follows that file too, and covers it.
LEMMA IngestedIs ==
    ASSUME index \in Indexes, NEW r \in Refs, NEW text \in Contents, text # None
    PROVE  /\ Ingested(r, text) \in Indexes
           /\ \A refs \in SUBSET Refs : file[r] = text =>
                 /\ Follows(index, refs) => Follows(Ingested(r, text), refs \cup {r})
                 /\ Follows(index, Refs) /\ Covers(index, refs) =>
                       Covers(Ingested(r, text), refs \cup {r})
<1> DEFINE documents == Ingested(r, text)
<1>1. CASE index[r] = None /\ \E q \in Refs : index[q] = text
  <2>1. documents = index
    BY <1>1 DEF Ingested
  <2> HIDE DEF documents
  <2>2. \A refs \in SUBSET Refs : file[r] = text /\ Follows(index, refs) =>
                                     Follows(documents, refs \cup {r})
    BY <1>1, <2>1 DEF Follows
  <2>3. \A refs \in SUBSET Refs : file[r] = text /\ Covers(index, refs) =>
                                     Covers(documents, refs \cup {r})
    BY <1>1, <2>1 DEF Covers
  <2> QED BY <2>1, <2>2, <2>3 DEF documents
<1>2. CASE ~ (index[r] = None /\ \E q \in Refs : index[q] = text)
  <2>1. documents = [index EXCEPT ![r] = text]
    BY <1>2 DEF Ingested
  <2>2. documents \in Indexes /\ documents[r] = text
        /\ \A q \in Refs : q # r => documents[q] = index[q]
    BY <2>1 DEF Indexes
  <2> HIDE DEF documents
  <2>3. \A refs \in SUBSET Refs : file[r] = text /\ Follows(index, refs) =>
                                     Follows(documents, refs \cup {r})
    BY <2>2 DEF Follows
  <2>4. ASSUME NEW refs \in SUBSET Refs, file[r] = text, Follows(index, Refs), Covers(index, refs)
        PROVE  Covers(documents, refs \cup {r})
    <3> SUFFICES ASSUME NEW s \in refs \cup {r}, file[s] # None
                 PROVE  \E q \in Refs : documents[q] = file[s]
      BY DEF Covers
    <3>1. CASE file[s] = text
      BY <2>2, <3>1
    <3>2. CASE file[s] # text
      <4>1. PICK q \in Refs : index[q] = file[s]
        BY <2>4, <3>2 DEF Covers
      <4>2. q # r
        BY <2>4, <3>2, <4>1 DEF Follows
      <4> QED BY <2>2, <4>1, <4>2
    <3> QED BY <3>1, <3>2
  <2> QED BY <2>2, <2>3, <2>4 DEF documents
<1> QED BY <1>1, <1>2

\* What was not seen, by a run that saw every file, was of no file.
LEMMA RemainingIs ==
    ASSUME NEW documents \in Indexes, NEW seen \in SUBSET Refs,
           seen = {r \in Refs : file[r] # None}
    PROVE  LET left == Remaining(documents, Unseen(documents, seen))
           IN  /\ Follows(documents, seen) => Follows(left, Refs)
               /\ Follows(documents, Refs) /\ Covers(documents, seen) => Covers(left, Refs)
<1> DEFINE left == Remaining(documents, Unseen(documents, seen))
<1>1. \A q \in Refs : /\ q \in seen => left[q] = documents[q]
                      /\ q \notin seen => left[q] = None /\ file[q] = None
  BY DEF Remaining, Unseen, Indexes
<1> HIDE DEF left
<1>2. Follows(documents, seen) => Follows(left, Refs)
  BY <1>1 DEF Follows
<1>3. ASSUME Follows(documents, Refs), Covers(documents, seen)
      PROVE  Covers(left, Refs)
  <2> SUFFICES ASSUME NEW s \in Refs, file[s] # None PROVE \E q \in Refs : left[q] = file[s]
    BY DEF Covers
  <2>1. PICK q \in Refs : documents[q] = file[s]
    BY <1>3 DEF Covers
  <2>2. q \in seen
    BY <1>3, <2>1 DEF Follows
  <2> QED BY <1>1, <2>1, <2>2
<1> QED BY <1>2, <1>3 DEF left

\* A run that goes on has ingested one reference more, and removed nothing.
LEMMA AdvanceKeepsKnowledge ==
    ASSUME KnowledgeInv, NEW u \in Runs, run[u].on, run[u].read # None,
           NEW r \in Refs, r = NextRef(u), NEW documents \in Indexes,
           documents = Ingested(r, run[u].read),
           NEW x \in RunStates, x.on, x.todo = run[u].todo \ {r}, x.todo # {},
           x.seen = run[u].seen \cup {r}, x.read = None, x.alone = run[u].alone,
           run' = [run EXCEPT ![u] = x], index' = documents,
           (disk' = disk /\ index' = index) \/ disk' = Whole(index'),
           UNCHANGED <<file, up, calm>>
    PROVE  KnowledgeInv'
<1>1. /\ file \in Indexes /\ index \in Indexes /\ run \in [Runs -> RunStates]
      /\ disk \in [is : {"whole"}, documents : Indexes] \cup {Torn}
  BY KnowledgeTypesAre DEF KnowledgeInv
<1>2. \A v \in Runs : /\ RunIsSound(run[v])
                      /\ run[v].alone => \A w \in Runs : run[w].on => w = v
  BY DEF KnowledgeInv, RunsInv
<1>3. /\ r \in run[u].todo
      /\ \A q \in run[u].todo : r <= q
  BY <1>2, NextIsLeast DEF KnowledgeInv, RunIsSound
<1>4. /\ run[u].seen \in SUBSET Refs /\ run[u].read \in Contents
  BY <1>1 DEF RunStates
<1>5. /\ run' \in [Runs -> RunStates] /\ run'[u] = x
      /\ \A v \in Runs : v # u => run'[v] = run[v]
  BY <1>1
<1>6. KnowledgeTypeOK'
  <2>1. disk' \in [is : {"whole"}, documents : Indexes] \cup {Torn}
    BY <1>1, IndexTypes
  <2>2. index' \in Indexes
    OBVIOUS
  <2> QED BY <1>5, <2>1, <2>2, Zenon DEF KnowledgeInv, KnowledgeTypeOK, RunStates
<1>7. Fresh(run[u]) => file[r] = run[u].read /\ Fresh(run[u])'
  <2>1. Fresh(run[u]) => file[r] = run[u].read
    BY <1>3 DEF Fresh
  <2>2. Fresh(run[u]) => Fresh(run[u])'
    <3>1. x.todo \cup x.seen = run[u].todo \cup run[u].seen
      BY <1>3
    <3> QED BY <1>5, <3>1 DEF Fresh
  <2> QED BY <2>1, <2>2
<1>8. RunsInv'
  <2> SUFFICES ASSUME NEW v \in Runs
               PROVE  /\ RunIsSound(run[v])'
                      /\ run'[v].alone => \A w \in Runs : run'[w].on => w = v
    BY DEF RunsInv
  <2>1. \A w \in Runs : run'[w].on = run[w].on /\ run'[w].alone = run[w].alone
    <3> SUFFICES ASSUME NEW w \in Runs
                 PROVE  run'[w].on = run[w].on /\ run'[w].alone = run[w].alone
      OBVIOUS
    <3>1. run[u].on = TRUE /\ x.on = TRUE
      BY <1>1 DEF RunStates
    <3> QED BY <1>5, <3>1
  <2>2. CASE v = u
    BY <1>2, <1>5, <1>7, <2>1, <2>2 DEF RunIsSound
  <2>3. CASE v # u
    <3>1. Fresh(run[v]) => Fresh(run[v])'
      BY <1>5, <2>3 DEF Fresh
    <3> QED BY <1>2, <1>5, <2>1, <2>3, <3>1 DEF RunIsSound
  <2> QED BY <2>2, <2>3
<1>9. \A refs \in SUBSET Refs : file[r] = run[u].read =>
         /\ Follows(index, refs) => Follows(documents, refs \cup {r})
         /\ Follows(index, Refs) /\ Covers(index, refs) => Covers(documents, refs \cup {r})
  BY <1>1, <1>4, IngestedIs
<1>10. \A refs : /\ Follows(index, refs)' <=> Follows(documents, refs)
                 /\ Covers(index, refs)' <=> Covers(documents, refs)
  BY DEF Follows, Covers
<1>11. ConvergeInv'
  <2>1. calm > 0 \/ run[u].alone => file[r] = run[u].read
    BY <1>2, <1>7 DEF RunIsSound
  <2>2. calm > 0 => up' /\ Follows(index, Refs)'
    <3> SUFFICES ASSUME calm > 0 PROVE up' /\ Follows(documents, Refs)
      BY <1>10
    <3>1. up /\ Follows(index, Refs)
      BY DEF KnowledgeInv, ConvergeInv
    <3>2. Refs \cup {r} = Refs
      OBVIOUS
    <3> QED BY <1>9, <2>1, <3>1, <3>2
  <2>3. calm = 2 => Covers(index, Refs)'
    <3> SUFFICES ASSUME calm = 2 PROVE Covers(documents, Refs)
      BY <1>10
    <3>1. Follows(index, Refs) /\ Covers(index, Refs)
      BY DEF KnowledgeInv, ConvergeInv
    <3>2. Refs \cup {r} = Refs
      OBVIOUS
    <3> QED BY <1>9, <2>1, <3>1, <3>2
  <2>4. ASSUME NEW v \in Runs, run'[v].on, run'[v].alone
        PROVE  Follows(documents, run'[v].seen) /\ (calm > 0 => Covers(documents, run'[v].seen))
    <3>1. v = u
      BY <1>2, <1>5, <2>4
    <3>2. /\ Follows(index, run[u].seen) /\ (calm > 0 => Follows(index, Refs) /\ Covers(index, run[u].seen))
          /\ run'[v].seen = run[u].seen \cup {r} /\ run[u].alone
      BY <1>5, <2>4, <3>1 DEF KnowledgeInv, ConvergeInv
    <3> QED BY <1>4, <1>9, <2>1, <3>2
  <2> QED BY <1>10, <2>2, <2>3, <2>4 DEF ConvergeInv
<1>12. RestartFindsIndex'
  BY IndexTypes DEF KnowledgeInv, RestartFindsIndex
<1> QED BY <1>6, <1>8, <1>11, <1>12 DEF KnowledgeInv

LEMMA IngestKeepsKnowledge ==
    ASSUME KnowledgeInv, NEW u \in Runs, Ingest(u)
    PROVE  KnowledgeInv'
<1> DEFINE r == NextRef(u)
           todo == run[u].todo \ {r}
           seen == run[u].seen \cup {r}
           documents == Ingested(r, run[u].read)
           gone == IF todo = {} THEN Unseen(documents, seen) ELSE {}
           x == [run[u] EXCEPT !.todo = todo, !.seen = seen, !.read = None]
           after == IF todo = {} THEN NoRun ELSE x
           left == Remaining(documents, gone)
<1>1. /\ run[u].on /\ run[u].read # None /\ UNCHANGED file
      /\ \E order \in SetToSeqs(gone) : Persist(u, Saves(documents, order), after)
  BY DEF Ingest
<1>2. /\ file \in Indexes /\ index \in Indexes /\ run \in [Runs -> RunStates] /\ calm \in 0..2
  BY KnowledgeTypesAre DEF KnowledgeInv
<1>3. /\ RunIsSound(run[u])
      /\ \A v \in Runs : run[v].alone => \A w \in Runs : run[w].on => w = v
  BY DEF KnowledgeInv, RunsInv
<1>4. r \in run[u].todo /\ r \in Refs /\ \A q \in run[u].todo : r <= q
  BY <1>1, <1>3, NextIsLeast DEF KnowledgeInv, RunIsSound
<1>5. seen \in SUBSET Refs /\ run[u].seen \in SUBSET Refs /\ run[u].read \in Contents
  BY <1>1, <1>2, <1>4 DEF RunStates
<1>6. /\ documents \in Indexes
      /\ file[r] = run[u].read =>
            /\ Follows(index, run[u].seen) => Follows(documents, seen)
            /\ Follows(index, Refs) /\ Covers(index, run[u].seen) => Covers(documents, seen)
            /\ Follows(index, Refs) => Follows(documents, Refs)
  <2>1. Refs \cup {r} = Refs
    BY <1>4
  <2> QED BY <1>1, <1>2, <1>4, <1>5, <2>1, IngestedIs
<1>7. gone \in SUBSET Refs
  BY DEF Unseen
<1>8. left \in Indexes
  BY <1>6 DEF Indexes, Remaining
<1>9. /\ x \in RunStates /\ x.on = run[u].on /\ x.todo = todo /\ x.seen = seen
      /\ x.read = None /\ x.alone = run[u].alone
  BY <1>2, <1>5 DEF RunStates
<1>10. NobodyElse(u)
  BY <1>1, <1>3 DEF NobodyElse
<1>11. PICK order \in SetToSeqs(gone) : Persist(u, Saves(documents, order), after)
  BY <1>1
<1>12. ASSUME todo # {} PROVE gone = {} /\ after = x /\ left = documents
  <2>1. gone = {} /\ after = x
    BY <1>12
  <2>2. Remaining(documents, {}) = documents
    BY <1>6 DEF Indexes, Remaining
  <2> QED BY <2>1, <2>2
<1>13. ASSUME todo = {}
       PROVE  /\ after = NoRun
              /\ run[u].alone => /\ Follows(left, Refs)
                                 /\ calm > 0 => Covers(left, Refs)
  <2>1. after = NoRun /\ left = Remaining(documents, Unseen(documents, seen))
    BY <1>13
  <2>2. SUFFICES ASSUME run[u].alone
                 PROVE  Follows(left, Refs) /\ (calm > 0 => Covers(left, Refs))
    BY <2>1
  <2>3. run[u].todo = {r}
    BY <1>4, <1>13
  <2>4. seen = {q \in Refs : file[q] # None} /\ file[r] = run[u].read
    BY <1>1, <1>3, <1>4, <2>2, <2>3 DEF RunIsSound, Fresh
  <2>5. /\ Follows(index, run[u].seen) /\ (calm > 0 => Covers(index, run[u].seen))
        /\ calm > 0 => Follows(index, Refs)
    BY <1>1, <2>2 DEF KnowledgeInv, ConvergeInv
  <2>6. /\ Follows(documents, seen)
        /\ calm > 0 => Follows(documents, Refs) /\ Covers(documents, seen)
    BY <1>6, <2>4, <2>5
  <2>7. /\ Follows(documents, seen) => Follows(left, Refs)
        /\ Follows(documents, Refs) /\ Covers(documents, seen) => Covers(left, Refs)
    <3> HIDE DEF seen, documents
    <3> QED BY <1>5, <1>6, <2>1, <2>4, RemainingIs
  <2> QED BY <2>6, <2>7
<1> HIDE DEF r, todo, seen, documents, gone, x, after, left
<1>14. CASE /\ index' = left
            /\ (disk' = disk /\ index' = index) \/ disk' = Whole(index')
            /\ run' = [run EXCEPT ![u] = after]
            /\ calm' = IF after.on THEN calm
                       ELSE IF ~ run[u].alone THEN 0
                       ELSE IF calm = 2 THEN 2 ELSE calm + 1
            /\ up' = up
  <2>1. CASE todo # {}
    <3>1. after = x /\ left = documents /\ x.on
      BY <1>1, <1>9, <1>12, <2>1
    <3>2. UNCHANGED <<file, up, calm>> /\ run' = [run EXCEPT ![u] = x] /\ index' = documents
      BY <1>1, <1>14, <3>1
    <3>3. /\ r = NextRef(u) /\ documents = Ingested(r, run[u].read)
          /\ x.todo = run[u].todo \ {r} /\ x.todo # {} /\ x.seen = run[u].seen \cup {r}
      BY <1>9, <2>1 DEF r, documents, todo, seen
    <3> QED BY <1>1, <1>4, <1>6, <1>9, <1>14, <3>1, <3>2, <3>3, AdvanceKeepsKnowledge, Zenon
  <2>2. CASE todo = {}
    <3>1. run' = [run EXCEPT ![u] = NoRun] /\ UNCHANGED <<file, up>> /\ index' \in Indexes
      BY <1>1, <1>8, <1>13, <1>14, <2>2
    <3>2. calm' = IF ~ run[u].alone THEN 0 ELSE IF calm = 2 THEN 2 ELSE calm + 1
      BY <1>13, <1>14, <2>2, IndexTypes
    <3>3. calm' \in 0..2 /\ (calm' > 0 => run[u].alone) /\ (calm' = 2 => run[u].alone /\ calm > 0)
      BY <1>2, <3>2
    <3>4. calm' > 0 => /\ up /\ Follows(index', Refs)
                       /\ \A v \in Runs : run[v].on => v = u
      BY <1>1, <1>3, <1>13, <1>14, <2>2, <3>3 DEF RunIsSound
    <3>5. calm' = 2 => Covers(index', Refs)
      BY <1>13, <1>14, <2>2, <3>3
    <3> QED BY <1>10, <1>14, <3>1, <3>3, <3>4, <3>5, EndKeepsKnowledge, Zenon
  <2> QED BY <2>1, <2>2
<1>15. CASE /\ index' \in Indexes /\ disk' = Torn /\ up' = up /\ calm' = 0
            /\ run' = [run EXCEPT ![u] = NoRun]
  <2>1. UNCHANGED <<file, up>> /\ calm' \in 0..2 /\ ~ (calm' > 0) /\ calm' # 2
    BY <1>1, <1>15
  <2> QED BY <1>10, <1>15, <2>1, EndKeepsKnowledge, Zenon
<1>16. CASE Dies /\ disk' \in {Torn} \cup WholeFiles
  BY <1>1, <1>16, DeathKeepsKnowledge
<1> QED BY <1>2, <1>6, <1>7, <1>11, <1>14, <1>15, <1>16, PersistIs, Zenon DEF left

LEMMA WorldKeepsKnowledge ==
    ASSUME KnowledgeInv,
           \/ \E r \in Refs, text \in Contents \cup {None} : FileChanges(r, text)
           \/ Killed \/ Restart
    PROVE  KnowledgeInv'
<1>1. /\ file \in Indexes /\ run \in [Runs -> RunStates] /\ calm \in 0..2
      /\ disk \in [is : {"whole"}, documents : Indexes] \cup {Torn}
  BY KnowledgeTypesAre DEF KnowledgeInv
<1>2. \A v \in Runs : /\ RunIsSound(run[v])
                      /\ run[v].alone => \A w \in Runs : run[w].on => w = v
  BY DEF KnowledgeInv, RunsInv
<1>3. ASSUME NEW r \in Refs, NEW text \in Contents \cup {None}, FileChanges(r, text)
      PROVE  KnowledgeInv'
  <2> DEFINE Late(x) == [x EXCEPT !.alone = FALSE]
  <2>1. /\ file' = [file EXCEPT ![r] = text]
        /\ run' = [v \in Runs |-> Late(run[v])]
        /\ calm' = 0 /\ UNCHANGED <<up, index, disk>>
    BY <1>3 DEF FileChanges
  <2>2. /\ \A x \in RunStates : /\ Late(x) \in RunStates /\ ~ Late(x).alone
                                /\ Late(x).on = x.on /\ Late(x).todo = x.todo
        /\ Late(NoRun) = NoRun
    <3>1. \A x \in RunStates : /\ Late(x) \in RunStates /\ ~ Late(x).alone
                                /\ Late(x).on = x.on /\ Late(x).todo = x.todo
      BY DEF RunStates
    <3>2. Late(NoRun) = NoRun
      <4>1. Late(NoRun) = [on |-> NoRun.on, todo |-> NoRun.todo, seen |-> NoRun.seen,
                           read |-> NoRun.read, alone |-> FALSE]
        BY IndexTypes DEF RunStates
      <4>2. /\ NoRun.on = FALSE /\ NoRun.todo = {} /\ NoRun.seen = {} /\ NoRun.read = None
        BY Zenon DEF NoRun
      <4> QED BY <4>1, <4>2, Zenon DEF NoRun
    <3> QED BY <3>1, <3>2
  <2> HIDE DEF Late
  <2>3. run' \in [Runs -> RunStates] /\ \A v \in Runs : run'[v] = Late(run[v])
    BY <1>1, <2>1, <2>2
  <2>4. file' \in Indexes
    BY <1>1, <2>1 DEF Indexes
  <2>5. calm' \in 0..2 /\ ~ (calm' > 0) /\ calm' # 2
    BY <2>1
  <2>6. KnowledgeTypeOK'
    BY <2>1, <2>3, <2>4, <2>5, Zenon DEF KnowledgeInv, KnowledgeTypeOK, RunStates
  <2>7. \A v \in Runs : /\ ~ run'[v].alone /\ run'[v].on = run[v].on /\ run'[v].todo = run[v].todo
                        /\ run[v] = NoRun => run'[v] = NoRun
    BY <1>1, <2>2, <2>3
  <2>8. RunsInv'
    BY <1>2, <2>1, <2>5, <2>7 DEF RunsInv, RunIsSound
  <2>9. ConvergeInv'
    BY <2>5, <2>7 DEF ConvergeInv
  <2>10. RestartFindsIndex'
    BY <2>1 DEF KnowledgeInv, RestartFindsIndex
  <2> QED BY <2>6, <2>8, <2>9, <2>10 DEF KnowledgeInv
<1>4. CASE Killed
  BY <1>4, DeathKeepsKnowledge DEF Killed
<1>5. CASE Restart
  <2>1. ~ up /\ disk.is = "whole" /\ up' = TRUE /\ index' = disk.documents
        /\ UNCHANGED <<file, disk, run, calm>>
    BY <1>5 DEF Restart
  <2>2. index' \in Indexes
    BY <1>1, <2>1, IndexTypes
  <2>3. up' \in BOOLEAN
    BY <2>1, Zenon
  <2>4. KnowledgeTypeOK'
    BY <2>1, <2>2, <2>3, Zenon DEF KnowledgeInv, KnowledgeTypeOK
  <2>5. \A v \in Runs : ~ run[v].on
    BY <1>2, <2>1 DEF RunIsSound
  <2>6. RunsInv'
    BY <1>2, <2>1, <2>5 DEF RunsInv, RunIsSound
  <2>7. ~ (calm > 0) /\ calm # 2
    BY <1>1, <2>1 DEF KnowledgeInv, ConvergeInv
  <2>8. ConvergeInv'
    BY <2>1, <2>5, <2>7 DEF ConvergeInv
  <2>9. RestartFindsIndex'
    BY <2>1 DEF RestartFindsIndex
  <2> QED BY <2>4, <2>6, <2>8, <2>9 DEF KnowledgeInv
<1> QED BY <1>3, <1>4, <1>5

LEMMA KnowledgeInitInv == KnowledgeInit => KnowledgeInv
<1> SUFFICES ASSUME KnowledgeInit PROVE KnowledgeInv
  OBVIOUS
<1>1. /\ file \in Indexes /\ up = TRUE /\ index = NoDocuments /\ disk = Whole(NoDocuments)
      /\ run = [u \in Runs |-> NoRun] /\ calm = 0
  BY DEF KnowledgeInit
<1>2. \A u \in Runs : run[u] = NoRun
  BY <1>1
<1>3. KnowledgeTypeOK
  <2>1. run \in [Runs -> RunStates]
    <3>1. NoRun \in RunStates
      BY IndexTypes
    <3> QED BY <1>1, <3>1
  <2>2. calm \in 0..2
    BY <1>1
  <2>3. up \in BOOLEAN
    BY <1>1, Zenon
  <2>4. index \in Indexes
    BY <1>1, IndexTypes, Zenon
  <2>5. disk \in [is : {"whole"}, documents : Indexes] \cup {Torn}
    BY <1>1, IndexTypes
  <2> QED BY <1>1, <2>1, <2>2, <2>3, <2>4, <2>5, Zenon DEF KnowledgeTypeOK, RunStates
<1>4. RunsInv
  BY <1>2, IndexTypes DEF RunsInv, RunIsSound
<1>5. ConvergeInv
  BY <1>1, <1>2, IndexTypes DEF ConvergeInv
<1>6. RestartFindsIndex
  BY <1>1, IndexTypes DEF RestartFindsIndex
<1> QED BY <1>3, <1>4, <1>5, <1>6 DEF KnowledgeInv

LEMMA KnowledgeStep == KnowledgeInv /\ [KnowledgeNext]_knowledgeVars => KnowledgeInv'
<1> SUFFICES ASSUME KnowledgeInv, [KnowledgeNext]_knowledgeVars PROVE KnowledgeInv'
  OBVIOUS
<1>1. CASE UNCHANGED knowledgeVars
  <2>1. UNCHANGED <<file, up, index, disk, run, calm>>
    BY <1>1 DEF knowledgeVars
  <2>2. KnowledgeTypeOK' /\ RestartFindsIndex'
    BY <2>1 DEF KnowledgeInv, KnowledgeTypeOK, RestartFindsIndex
  <2>3. RunsInv' /\ ConvergeInv'
    BY <2>1 DEF KnowledgeInv, RunsInv, RunIsSound, Fresh, ConvergeInv, Follows, Covers
  <2> QED BY <2>2, <2>3 DEF KnowledgeInv
<1>2. ASSUME NEW u \in Runs, StartRun(u) \/ RunOverNothing(u) \/ Load(u) \/ Ingest(u)
      PROVE  KnowledgeInv'
  BY <1>2, StartKeepsKnowledge, NothingKeepsKnowledge, LoadKeepsKnowledge, IngestKeepsKnowledge
<1> QED BY <1>1, <1>2, WorldKeepsKnowledge DEF KnowledgeNext

\* Incremental indexing follows the files and a restart changes nothing: two
\* complete runs alone, one after the other, over files that stay as they are
\* leave in the index what the files hold and no more, and memory and a state file
\* that is not torn agree, whatever runs overlap, fail or are killed, and whatever
\* changes under them (ingest, reconcile, _persist, _load).
THEOREM IndexIsFresh == Spec => []IndexFollowsFiles
<1>1. Init => KnowledgeInv
  BY PartSteps, KnowledgeInitInv
<1>2. KnowledgeInv /\ [Next]_vars => KnowledgeInv'
  BY PartSteps, KnowledgeStep
<1>3. KnowledgeInv => IndexFollowsFiles
  <2> SUFFICES ASSUME KnowledgeInv PROVE IndexFollowsFiles
    OBVIOUS
  <2>1. calm = 2 => Follows(index, Refs) /\ Covers(index, Refs)
    BY DEF KnowledgeInv, ConvergeInv
  <2>2. StillRunsConverge
    BY <2>1 DEF StillRunsConverge, Follows, Covers
  <2> QED BY <2>2 DEF KnowledgeInv, IndexFollowsFiles
<1> QED BY <1>1, <1>2, <1>3, PTL DEF Spec

-----------------------------------------------------------------------------
(* Conversations.                                                          *)

MemoryStates == [begun : BOOLEAN, live : Seq(Turns), tokens : Int, pending : Nat]

\* How much the turns not yet summarised may exceed those that are there.
Slack == IF WindowSize < CompressAt THEN CompressAt - WindowSize ELSE 0

MemoryInv(m) ==
    /\ m \in MemoryStates
    /\ m.begun \/ m = Nobody
    /\ m.live \in Seq(Said) /\ Len(m.live) <= WindowSize
    /\ m.tokens = Tokens(m.live)
    /\ Chunk <= WindowSize => /\ m.pending < CompressAt
                              /\ Len(m.live) = WindowSize \/ m.pending <= Len(m.live) + Slack

\* What the memory m holds of the turns V is the end of those that s holds.
Agree(m, s, V) ==
    LET known == Among(m.live, V)
        kept == Among(s, V \cap Said)
    IN  IsSuffix(known, kept) /\ (Len(m.live) < Fewest => known = kept)

Others(n) == {t \in Turns : t.of # n}

LEMMA TurnTypes ==
    /\ \A t \in Turns : t.of \in 1..MaxQuestions /\ t.size \in {0, 1, 2}
    /\ \A n \in 1..MaxQuestions : Turn("user", n, 1) \in Said
    /\ \A n \in 1..MaxQuestions, k \in {0, 2} : Turn("assistant", n, k) \in Turns
    /\ Said \subseteq Turns
    /\ \A k \in {0, 1, 2}, r \in {"user", "assistant"}, n \in 1..MaxQuestions :
          Turn(r, n, k).of = n /\ Turn(r, n, k).size = k
BY DEF Turns, Turn, Said

LEMMA ChunkIs == Chunk \in Nat \ {0} /\ Chunk < CompressAt
BY ConversationsAssumption DEF Chunk

LEMMA TokensEmpty == Tokens(<<>>) = 0
<1>1. [i \in DOMAIN <<>> |-> <<>>[i].size] = <<>>
  OBVIOUS
<1> QED BY <1>1, TotalEmpty DEF Tokens

LEMMA TokensAppend ==
    ASSUME NEW s \in Seq(Turns), NEW t \in Turns
    PROVE  Tokens(s) \in Int /\ Tokens(Append(s, t)) = Tokens(s) + t.size
<1> DEFINE sizes(q) == [i \in DOMAIN q |-> q[i].size]
<1>1. sizes(s) \in Seq(Int) /\ t.size \in Int
  BY TurnTypes
<1>2. sizes(Append(s, t)) = Append(sizes(s), t.size)
  OBVIOUS
<1>3. Total(Append(sizes(s), t.size)) = Total(sizes(s)) + t.size /\ Total(sizes(s)) \in Int
  BY <1>1, TotalAppend, TotalType
<1> QED BY <1>2, <1>3 DEF Tokens

LEMMA NewestIs ==
    ASSUME NEW S, NEW s \in Seq(S), NEW k \in Nat
    PROVE  /\ Newest(s, k) \in Seq(S) /\ IsSuffix(Newest(s, k), s)
           /\ Len(Newest(s, k)) = IF Len(s) > k THEN k ELSE Len(s)
           /\ Len(s) <= k => Newest(s, k) = s
<1>1. CASE Len(s) > k
  <2> DEFINE r == SubSeq(s, Len(s) - k + 1, Len(s))
  <2>1. r \in Seq(S) /\ Len(r) = k /\ \A i \in 1..k : r[i] = s[Len(s) - k + i]
    BY <1>1
  <2>2. Newest(s, k) = r
    BY <1>1 DEF Newest
  <2> HIDE DEF r
  <2>3. IsSuffix(r, s)
    BY <1>1, <2>1, SuffixIs
  <2> QED BY <1>1, <2>1, <2>2, <2>3
<1>2. CASE Len(s) <= k
  <2>1. Newest(s, k) = s
    BY <1>2 DEF Newest
  <2> QED BY <1>2, <2>1, SuffixSelf
<1> QED BY <1>1, <1>2


LEMMA TokensInt == \A s \in Seq(Turns) : Tokens(s) \in Int
<1> TAKE s \in Seq(Turns)
<1> DEFINE sizes == [i \in DOMAIN s |-> s[i].size]
<1>1. sizes \in Seq(Int)
  BY TurnTypes
<1> QED BY <1>1, TotalType DEF Tokens

\* Counted m: its tokens are those of what it holds.
Counted(m) == m \in MemoryStates /\ m.tokens = Tokens(m.live)

LEMMA TrimIs ==
    ASSUME NEW m, Counted(m)
    PROVE  /\ Counted(Trim(m)) /\ Trim(m).begun = m.begun /\ Trim(m).pending = m.pending
           /\ Trim(m).live = Newest(m.live, WindowSize)
<1> DEFINE kept == Newest(m.live, WindowSize)
<1>1. kept \in Seq(Turns) /\ m.live \in Seq(Turns)
  BY NewestIs, ConversationsAssumption DEF Counted, MemoryStates
<1>2. Tokens(kept) \in Int /\ Tokens(m.live) \in Int
  BY <1>1, TokensInt
<1>3. Trim(m) = [m EXCEPT !.live = kept, !.tokens = @ - (Tokens(m.live) - Tokens(kept))]
  BY DEF Trim
<1>4. m.tokens - (Tokens(m.live) - Tokens(kept)) = Tokens(kept)
  BY <1>2 DEF Counted
<1> HIDE DEF kept
<1>5. Trim(m) = [begun |-> m.begun, live |-> kept, tokens |-> Tokens(kept), pending |-> m.pending]
  BY <1>3, <1>4 DEF Counted, MemoryStates
<1> QED BY <1>1, <1>2, <1>5 DEF Counted, MemoryStates, kept

LEMMA CompressIs ==
    ASSUME NEW m, Counted(m)
    PROVE  /\ Counted(Compress(m)) /\ Compress(m).begun = m.begun
           /\ m.pending >= CompressAt /\ Len(m.live) >= Chunk =>
                 /\ Compress(m).live = Newest(m.live, Len(m.live) - Chunk)
                 /\ Compress(m).pending = m.pending - Chunk
           /\ ~ (m.pending >= CompressAt /\ Len(m.live) >= Chunk) => Compress(m) = m
<1>1. CASE m.pending >= CompressAt /\ Len(m.live) >= Chunk
  <2> DEFINE kept == Newest(m.live, Len(m.live) - Chunk)
  <2>0. m.live \in Seq(Turns) /\ Len(m.live) - Chunk \in Nat /\ m.pending - Chunk \in Nat
    BY <1>1, ChunkIs, ConversationsAssumption DEF Counted, MemoryStates
  <2>1. kept \in Seq(Turns)
    BY <2>0, NewestIs
  <2>2. Tokens(kept) \in Int /\ Tokens(m.live) \in Int
    BY <2>0, <2>1, TokensInt
  <2>3. Compress(m) = [m EXCEPT !.live = kept, !.pending = @ - Chunk,
                                !.tokens = @ - (Tokens(m.live) - Tokens(kept))]
    BY <1>1 DEF Compress
  <2>4. m.tokens - (Tokens(m.live) - Tokens(kept)) = Tokens(kept)
    BY <2>2 DEF Counted
  <2> HIDE DEF kept
  <2>5. Compress(m) = [begun |-> m.begun, live |-> kept, tokens |-> Tokens(kept), pending |-> m.pending - Chunk]
    BY <2>3, <2>4 DEF Counted, MemoryStates
  <2> QED BY <1>1, <2>0, <2>1, <2>2, <2>5 DEF Counted, MemoryStates, kept
<1>2. CASE ~ (m.pending >= CompressAt /\ Len(m.live) >= Chunk)
  <2>1. Compress(m) = m
    BY <1>2 DEF Compress
  <2> QED BY <1>2, <2>1
<1> QED BY <1>1, <1>2

LEMMA ReplacedIs ==
    ASSUME NEW m \in MemoryStates, NEW l, NEW k, NEW p
    PROVE  [m EXCEPT !.begun = TRUE, !.live = l, !.tokens = k, !.pending = p]
              = [begun |-> TRUE, live |-> l, tokens |-> k, pending |-> p]
<1> DEFINE z == [m EXCEPT !.begun = TRUE, !.live = l, !.tokens = k, !.pending = p]
<1>1. PICK y : y = z
  OBVIOUS
<1>2. y = [begun |-> TRUE, live |-> l, tokens |-> k, pending |-> p]
  BY <1>1 DEF MemoryStates
<1> QED BY <1>1, <1>2

\* What one more turn makes of a memory.
LEMMA AddIs ==
    ASSUME NEW m, MemoryInv(m), NEW t \in Turns
    PROVE  /\ MemoryInv(Add(m, t)) /\ Add(m, t).begun
           /\ t.size = 0 => Add(m, t).live = m.live
           /\ t.size > 0 => /\ IsSuffix(Add(m, t).live, Append(m.live, t))
                            /\ Len(Add(m, t).live) < Fewest => Add(m, t).live = Append(m.live, t)
<1>0. /\ m \in MemoryStates /\ m.live \in Seq(Turns) /\ m.live \in Seq(Said) /\ Counted(m)
      /\ m.pending \in Nat /\ Len(m.live) \in Nat /\ WindowSize \in Nat \ {0} /\ CompressAt \in Nat \ {0, 1}
  BY ConversationsAssumption DEF MemoryInv, MemoryStates, Counted
<1>1. CASE t.size = 0
  <2>1. Add(m, t) = [m EXCEPT !.begun = TRUE]
    BY <1>1 DEF Add
  <2>2. Add(m, t) = [begun |-> TRUE, live |-> m.live, tokens |-> m.tokens, pending |-> m.pending]
    BY <1>0, <2>1 DEF MemoryStates
  <2> QED BY <1>0, <1>1, <2>2 DEF MemoryInv, MemoryStates
<1>2. CASE t.size > 0
  <2> DEFINE n == [begun |-> TRUE, live |-> Append(m.live, t), tokens |-> m.tokens + t.size,
                   pending |-> m.pending + 1]
  <2>1. t \in Said
    BY <1>2 DEF Said
  <2>2. Add(m, t) = Compress(Trim(n))
    <3>1. t.size # 0 /\ t.size > 0
      BY <1>2
    <3>2. [m EXCEPT !.begun = TRUE, !.live = Append(@, t), !.tokens = @ + t.size, !.pending = @ + 1] = n
      BY <1>0, ReplacedIs
    <3>3. Add(m, t) = Compress(Trim([m EXCEPT !.begun = TRUE, !.live = Append(@, t),
                                               !.tokens = @ + t.size, !.pending = @ + 1]))
      BY <3>1 DEF Add
    <3> HIDE DEF n
    <3> QED BY <3>2, <3>3
  <2>3. Counted(n)
    <3>1. Tokens(Append(m.live, t)) = m.tokens + t.size /\ m.tokens + t.size \in Int
      BY <1>0, TokensAppend, TurnTypes DEF Counted
    <3> QED BY <1>0, <3>1 DEF Counted, MemoryStates
  <2>4. n.begun /\ n.live = Append(m.live, t) /\ n.pending = m.pending + 1
    OBVIOUS
  <2>5. n.live \in Seq(Said) /\ Len(n.live) = Len(m.live) + 1
    BY <1>0, <2>1
  <2> HIDE DEF n
  <2> DEFINE p == Trim(n)
  <2>6. /\ Counted(p) /\ p.begun /\ p.pending = m.pending + 1
        /\ p.live = Newest(n.live, WindowSize)
    BY <2>3, <2>4, TrimIs
  <2>7. /\ p.live \in Seq(Said) /\ IsSuffix(p.live, n.live)
        /\ Len(p.live) = IF Len(m.live) + 1 > WindowSize THEN WindowSize ELSE Len(m.live) + 1
        /\ Len(m.live) + 1 <= WindowSize => p.live = n.live
    BY <1>0, <2>5, <2>6, NewestIs
  <2> HIDE DEF p
  <2> DEFINE q == Compress(p)
  <2>8. Add(m, t) = q
    BY <2>2 DEF p
  <2>9. CASE p.pending >= CompressAt /\ Len(p.live) >= Chunk
    <3>1. Counted(q) /\ q.begun /\ q.live = Newest(p.live, Len(p.live) - Chunk) /\ q.pending = p.pending - Chunk
      BY <2>6, <2>9, CompressIs
    <3>2. Len(p.live) - Chunk \in Nat /\ Len(p.live) > Len(p.live) - Chunk
      BY <2>7, <2>9, ChunkIs
    <3>3. q.live \in Seq(Said) /\ IsSuffix(q.live, p.live) /\ Len(q.live) = Len(p.live) - Chunk
      BY <2>7, <3>1, <3>2, NewestIs
    <3>4. IsSuffix(q.live, n.live)
      BY <2>5, <2>7, <3>3, SuffixTransitive
    <3>5. Chunk <= WindowSize
      BY <1>0, <2>7, <2>9, <3>2, ChunkIs
    <3>6. m.pending < CompressAt /\ (Len(m.live) = WindowSize \/ m.pending <= Len(m.live) + Slack)
      BY <3>5 DEF MemoryInv
    <3>7. p.pending = CompressAt /\ q.pending = CompressAt - Chunk
      BY <1>0, <2>6, <2>9, <3>1, <3>6, ChunkIs
    <3>8. Len(p.live) + Slack >= CompressAt
      <4>1. CASE WindowSize < CompressAt
        BY <1>0, <2>6, <2>7, <3>6, <3>7, <4>1 DEF Slack
      <4>2. CASE WindowSize >= CompressAt
        <5>1. Slack = 0 /\ m.pending + 1 = CompressAt
          BY <1>0, <2>6, <3>7, <4>2 DEF Slack
        <5>2. Len(m.live) = WindowSize \/ m.pending <= Len(m.live)
          BY <1>0, <3>6, <5>1
        <5>3. Len(p.live) >= CompressAt
          BY <1>0, <2>7, <4>2, <5>1, <5>2
        <5> QED BY <1>0, <2>7, <5>1, <5>3
      <4> QED BY <1>0, <4>1, <4>2
    <3>9. q.pending <= Len(q.live) + Slack /\ Len(q.live) >= Fewest /\ q.pending < CompressAt
          /\ Len(q.live) <= WindowSize
      <4>1. CASE WindowSize < CompressAt
        BY <1>0, <2>7, <3>2, <3>3, <3>5, <3>7, <3>8, ChunkIs, <4>1 DEF Slack, Fewest
      <4>2. CASE WindowSize >= CompressAt
        <5>1. Slack = 0 /\ Fewest = CompressAt - Chunk
          BY <1>0, <3>5, <4>2, ChunkIs DEF Slack, Fewest
        <5>2. Len(p.live) >= CompressAt /\ Len(p.live) <= WindowSize /\ Len(p.live) \in Nat
          BY <1>0, <2>7, <3>8, <5>1
        <5> HIDE DEF q
        <5> QED BY <1>0, <3>3, <3>7, <5>1, <5>2, ChunkIs
      <4> QED BY <1>0, <4>1, <4>2
    <3>10. MemoryInv(q)
      BY <3>1, <3>3, <3>9 DEF MemoryInv, Counted
    <3>11. ~ (Len(q.live) < Fewest)
      <4>1. Fewest \in Int /\ Len(q.live) \in Int
        BY <1>0, <3>3, ChunkIs DEF Fewest
      <4> QED BY <3>9, <4>1
    <3> QED BY <1>2, <2>4, <2>8, <3>1, <3>4, <3>10, <3>11
  <2>10. CASE ~ (p.pending >= CompressAt /\ Len(p.live) >= Chunk)
    <3>1. q = p
      BY <2>6, <2>10, CompressIs
    <3>2. ASSUME Chunk <= WindowSize
          PROVE  /\ p.pending < CompressAt
                 /\ Len(p.live) = WindowSize \/ p.pending <= Len(p.live) + Slack
      <4>1. m.pending < CompressAt /\ (Len(m.live) = WindowSize \/ m.pending <= Len(m.live) + Slack)
        BY <3>2 DEF MemoryInv
      <4>2. Slack \in Nat /\ (WindowSize < CompressAt => Slack + WindowSize = CompressAt)
        BY <1>0 DEF Slack
      <4>3. Len(p.live) = WindowSize \/ p.pending <= Len(p.live) + Slack
        BY <1>0, <2>6, <2>7, <4>1, <4>2
      <4>4. p.pending < CompressAt
        <5> SUFFICES ASSUME p.pending >= CompressAt PROVE FALSE
          BY <1>0, <2>6
        <5>1. Len(p.live) < Chunk
          BY <1>0, <2>7, <2>10, ChunkIs
        <5>2. CASE WindowSize < CompressAt
          BY <1>0, <2>6, <2>7, <3>2, <4>2, <4>3, <5>1, <5>2, ChunkIs
        <5>3. CASE WindowSize >= CompressAt
          <6>1. Slack = 0
            BY <1>0, <5>3 DEF Slack
          <6> QED BY <1>0, <2>6, <2>7, <3>2, <4>3, <5>1, <5>3, <6>1, ChunkIs
        <5> QED BY <1>0, <5>2, <5>3
      <4> QED BY <4>3, <4>4
    <3>3. Len(p.live) <= WindowSize
      BY <1>0, <2>7
    <3>4. MemoryInv(p)
      BY <2>6, <2>7, <3>2, <3>3 DEF MemoryInv, Counted
    <3>5. Len(p.live) < Fewest => p.live = n.live
      <4>1. Fewest <= WindowSize /\ Fewest \in Int
        BY <1>0, ChunkIs DEF Fewest
      <4> QED BY <1>0, <2>7, <4>1
    <3> QED BY <1>2, <2>4, <2>6, <2>7, <2>8, <3>1, <3>4, <3>5
  <2> QED BY <2>9, <2>10
<1> QED BY <1>1, <1>2, TurnTypes

-----------------------------------------------------------------------------
(* A memory and the turns it is of.                                        *)

LEMMA AgreeTypes ==
    ASSUME NEW m, MemoryInv(m), NEW s \in Seq(Turns), NEW V
    PROVE  /\ m.live \in Seq(Turns)
           /\ Among(m.live, V) \in Seq(Turns) /\ Among(s, V \cap Said) \in Seq(Turns)
<1>1. m.live \in Seq(Turns)
  BY DEF MemoryInv, MemoryStates
<1> QED BY <1>1, AmongIn

\* Turns that are not looked at do not matter.
LEMMA AgreeLess ==
    ASSUME NEW m, MemoryInv(m), NEW s \in Seq(Turns), NEW V, NEW W, W \subseteq V, Agree(m, s, V)
    PROVE  Agree(m, s, W)
<1> DEFINE known == Among(m.live, V)  kept == Among(s, V \cap Said)
<1>1. m.live \in Seq(Turns) /\ known \in Seq(Turns) /\ kept \in Seq(Turns)
  BY AgreeTypes
<1>2. IsSuffix(known, kept) /\ (Len(m.live) < Fewest => known = kept)
  BY DEF Agree
<1>3. Among(known, W) = Among(m.live, W)
  <2>1. V \cap W = W
    OBVIOUS
  <2>2. Among(Among(m.live, V), W) = Among(m.live, V \cap W)
    BY <1>1, AmongTwice
  <2> QED BY <2>1, <2>2
<1>4. Among(kept, W) = Among(s, W \cap Said)
  <2>1. (V \cap Said) \cap W = W \cap Said
    OBVIOUS
  <2>2. Among(Among(s, V \cap Said), W) = Among(s, (V \cap Said) \cap W)
    BY AmongTwice
  <2> QED BY <2>1, <2>2
<1> HIDE DEF known, kept
<1>5. IsSuffix(Among(known, W), Among(kept, W))
  BY <1>1, <1>2, SuffixAmong
<1> QED BY <1>2, <1>3, <1>4, <1>5 DEF Agree

\* Nor does what else is looked at, if there is none of it.
LEMMA AgreeSame ==
    ASSUME NEW A \in SUBSET Turns, NEW m, m.live \in Seq(A), NEW s \in Seq(A), NEW V, NEW W,
           A \cap V = A \cap W, Agree(m, s, V)
    PROVE  Agree(m, s, W)
<1>1. Among(m.live, V) = Among(m.live, W)
  BY AmongSame
<1>2. A \cap (V \cap Said) = A \cap (W \cap Said)
  OBVIOUS
<1>3. Among(s, V \cap Said) = Among(s, W \cap Said)
  BY <1>2, AmongSame
<1> QED BY <1>1, <1>3 DEF Agree

LEMMA AgreeSkip ==
    ASSUME NEW m, NEW s \in Seq(Turns), NEW t \in Turns, NEW V, t \notin V
    PROVE  Agree(m, Append(s, t), V) <=> Agree(m, s, V)
<1>1. t \notin V \cap Said
  OBVIOUS
<1>2. Among(Append(s, t), V \cap Said) = Among(s, V \cap Said)
  BY <1>1, AmongAppend
<1> QED BY <1>2 DEF Agree

\* A turn that is added to both.
LEMMA AgreeAdd ==
    ASSUME NEW m, MemoryInv(m), NEW s \in Seq(Turns), NEW t \in Turns, NEW V, Agree(m, s, V)
    PROVE  Agree(Add(m, t), Append(s, t), V)
<1> DEFINE known == Among(m.live, V)  kept == Among(s, V \cap Said)  n == Add(m, t)
           both == Append(s, t)
<1>1. m.live \in Seq(Turns) /\ known \in Seq(Turns) /\ kept \in Seq(Turns)
  BY AgreeTypes
<1>2. IsSuffix(known, kept) /\ (Len(m.live) < Fewest => known = kept)
  BY DEF Agree
<1>3. /\ MemoryInv(n)
      /\ t.size = 0 => n.live = m.live
      /\ t.size > 0 => /\ IsSuffix(n.live, Append(m.live, t))
                       /\ Len(n.live) < Fewest => n.live = Append(m.live, t)
  BY AddIs
<1>4. n.live \in Seq(Turns) /\ Among(n.live, V) \in Seq(Turns)
  BY <1>3, AgreeTypes
<1>5. Among(both, V \cap Said) = IF t \in V \cap Said THEN Append(kept, t) ELSE kept
  BY AmongAppend
<1>6. Among(Append(m.live, t), V) = IF t \in V THEN Append(known, t) ELSE known
  BY <1>1, AmongAppend
<1> HIDE DEF known, kept, n, both
<1> SUFFICES /\ IsSuffix(Among(n.live, V), Among(both, V \cap Said))
             /\ Len(n.live) < Fewest => Among(n.live, V) = Among(both, V \cap Said)
  BY DEF Agree, n, both
<1>7. CASE t.size = 0
  <2>1. t \notin V \cap Said
    BY <1>7 DEF Said
  <2>2. Among(n.live, V) = known /\ Among(both, V \cap Said) = kept
    BY <1>3, <1>5, <1>7, <2>1 DEF known
  <2> QED BY <1>2, <1>3, <1>7, <2>2
<1>8. CASE t.size > 0
  <2> DEFINE more == Among(Append(m.live, t), V)  all == Among(both, V \cap Said)
  <2>1. t \in Said
    BY <1>8 DEF Said
  <2>2. /\ more = IF t \in V THEN Append(known, t) ELSE known
        /\ all = IF t \in V THEN Append(kept, t) ELSE kept
    BY <1>5, <1>6, <2>1
  <2>3. Append(m.live, t) \in Seq(Turns)
    BY <1>1
  <2>4. IsSuffix(Among(n.live, V), more)
    BY <1>3, <1>4, <1>8, <2>3, SuffixAmong
  <2> HIDE DEF more, all
  <2>5. more \in Seq(Turns) /\ all \in Seq(Turns)
    <3>1. Append(known, t) \in Seq(Turns) /\ Append(kept, t) \in Seq(Turns)
      BY <1>1
    <3> QED BY <1>1, <2>2, <3>1, Zenon
  <2>6. Len(n.live) < Fewest => Among(n.live, V) = more
    <3>1. Len(n.live) < Fewest => n.live = Append(m.live, t)
      BY <1>3, <1>8
    <3> QED BY <3>1, Zenon DEF more
  <2>7. Len(n.live) < Fewest => Len(m.live) < Fewest
    <3>1. Len(Append(m.live, t)) = Len(m.live) + 1
      BY <1>1
    <3>2. Fewest \in Int
      BY ConversationsAssumption, ChunkIs DEF Fewest
    <3> QED BY <1>1, <1>3, <1>8, <3>1, <3>2
  <2>8. IsSuffix(more, all)
    BY <1>1, <1>2, <2>2, SuffixAppend
  <2>9. IsSuffix(Among(n.live, V), all)
    BY <1>4, <2>4, <2>5, <2>8, SuffixTransitive
  <2>10. Len(n.live) < Fewest => Among(n.live, V) = all
    BY <1>2, <2>2, <2>6, <2>7, Zenon
  <2> QED BY <2>9, <2>10 DEF all
<1>9. t.size = 0 \/ t.size > 0
  BY TurnTypes
<1> QED BY <1>7, <1>8, <1>9

\* A turn that is remembered and not looked at.
LEMMA AgreeAside ==
    ASSUME NEW m, MemoryInv(m), NEW s \in Seq(Turns), NEW t \in Turns, NEW V, t \notin V, Agree(m, s, V)
    PROVE  Agree(Add(m, t), s, V)
<1>1. Agree(Add(m, t), Append(s, t), V)
  BY AgreeAdd
<1> QED BY <1>1, AgreeSkip

LEMMA NobodyIs ==
    /\ MemoryInv(Nobody) /\ ~ Nobody.begun /\ Nobody.live = <<>>
    /\ \A V : Agree(Nobody, <<>>, V)
<1>1. Nobody \in MemoryStates /\ Nobody.live = <<>> /\ Nobody.tokens = 0 /\ Nobody.pending = 0 /\ ~ Nobody.begun
  BY DEF Nobody, MemoryStates
<1>2. <<>> \in Seq(Said) /\ Len(<<>>) = 0 /\ <<>> \in Seq(Turns)
  OBVIOUS
<1>3. Slack \in Nat
  BY ConversationsAssumption DEF Slack
<1>4. MemoryInv(Nobody)
  BY <1>1, <1>2, <1>3, TokensEmpty, ConversationsAssumption DEF MemoryInv
<1>5. ASSUME NEW V PROVE Agree(Nobody, <<>>, V)
  <2>1. Among(<<>>, V) = <<>> /\ Among(<<>>, V \cap Said) = <<>>
    BY AmongEmpty
  <2>2. IsSuffix(<<>>, <<>>)
    BY <1>2, SuffixSelf
  <2> QED BY <1>1, <2>1, <2>2 DEF Agree
<1> QED BY <1>1, <1>4, <1>5

\* f[i] is the memory after the first i turns of s.
Fills(f, m, s) == f = [i \in 0..Len(s) |-> IF i = 0 THEN m ELSE Add(f[i - 1], s[i])]

LEMMA FillsExists ==
    ASSUME NEW m, NEW s \in Seq(Turns)
    PROVE  \E f : Fills(f, m, s)
<1> DEFINE Step(f, i) == IF i = 0 THEN m ELSE Add(f[i - 1], s[i])
           T == {n \in Nat : \E f : f = [i \in 0..n |-> Step(f, i)]}
<1>1. 0 \in T
  <2> DEFINE f == [i \in 0..0 |-> m]
  <2>1. f = [i \in 0..0 |-> Step(f, i)]
    OBVIOUS
  <2> QED BY <2>1
<1>2. ASSUME NEW n \in Nat, n \in T PROVE n + 1 \in T
  <2>1. PICK f : f = [i \in 0..n |-> Step(f, i)]
    BY <1>2
  <2> DEFINE g == [i \in 0..(n + 1) |-> IF i = n + 1 THEN Step(f, i) ELSE f[i]]
  <2>2. ASSUME NEW i \in 0..(n + 1) PROVE g[i] = Step(g, i)
    <3>1. i # 0 => i - 1 \in 0..n /\ g[i - 1] = f[i - 1]
      OBVIOUS
    <3>2. CASE i = n + 1
      BY <3>1, <3>2
    <3>3. CASE i # n + 1
      <4>1. i \in 0..n /\ g[i] = f[i]
        BY <3>3
      <4>2. f[i] = Step(f, i)
        BY <2>1, <4>1
      <4> QED BY <3>1, <4>1, <4>2
    <3> QED BY <3>2, <3>3
  <2>3. g = [i \in 0..(n + 1) |-> Step(g, i)]
    BY <2>2
  <2> HIDE DEF g, Step
  <2> QED BY <2>3
<1> HIDE DEF T
<1>3. Len(s) \in T
  BY <1>1, <1>2, Induction
<1> QED BY <1>3 DEF T, Fills

\* A memory holds nothing but what it was given.
LEMMA AddIn ==
    ASSUME NEW m, MemoryInv(m), NEW A, m.live \in Seq(A), NEW t \in Turns, t \in A
    PROVE  Add(m, t).live \in Seq(A)
<1> DEFINE l == Add(m, t).live  b == Append(m.live, t)
<1>1. m.live \in Seq(Turns) /\ l \in Seq(Turns)
  BY AddIs DEF MemoryInv, MemoryStates
<1>2. b \in Seq(Turns) /\ b \in Seq(A)
  BY <1>1
<1>3. t.size = 0 \/ t.size > 0
  BY TurnTypes
<1>4. l = m.live \/ IsSuffix(l, b)
  BY <1>3, AddIs
<1> HIDE DEF l, b
<1>5. ASSUME IsSuffix(l, b) PROVE l \in Seq(A)
  <2>1. Len(l) <= Len(b) /\ \A i \in 1..Len(l) : l[i] = b[Len(b) - Len(l) + i]
    BY <1>1, <1>2, <1>5, SuffixIs
  <2>2. \A i \in 1..Len(l) : l[i] \in A
    BY <1>1, <1>2, <2>1
  <2> QED BY <1>1, <2>2
<1> QED BY <1>1, <1>4, <1>5 DEF l

\* What a service gets of the turns s it is filled with.
LEMMA FilledIs ==
    ASSUME NEW s \in Seq(Turns), NEW A, s \in Seq(A)
    PROVE  LET m == Filled(Nobody, s)
           IN  /\ MemoryInv(m) /\ (m.begun <=> s # <<>>) /\ m.live \in Seq(A)
               /\ \A V : Agree(m, s, V)
<1> DEFINE filled == CHOOSE f : Fills(f, Nobody, s)
           Upto(n) == SubSeq(s, 1, n)
           IsRight(m, n) == /\ MemoryInv(m) /\ (m.begun <=> n # 0) /\ m.live \in Seq(A)
                            /\ \A V : Agree(m, Upto(n), V)
           T == {n \in Nat : n <= Len(s) => IsRight(filled[n], n)}
<1>1. Fills(filled, Nobody, s)
  BY FillsExists
<1>2. Filled(Nobody, s) = filled[Len(s)]
  BY DEF Filled, Fills
<1> HIDE DEF filled
<1>3. 0 \in T
  <2>1. filled[0] = Nobody /\ Upto(0) = <<>> /\ <<>> \in Seq(A)
    BY <1>1 DEF Fills
  <2> QED BY <2>1, NobodyIs
<1>4. ASSUME NEW n \in Nat, n \in T PROVE n + 1 \in T
  <2> SUFFICES ASSUME n + 1 <= Len(s) PROVE IsRight(filled[n + 1], n + 1)
    OBVIOUS
  <2> DEFINE m == filled[n]  t == s[n + 1]
  <2>1. filled[n + 1] = Add(m, t) /\ t \in Turns /\ t \in A
    <3>1. n + 1 \in 0..Len(s) /\ n + 1 # 0 /\ (n + 1) - 1 = n
      OBVIOUS
    <3> QED BY <1>1, <3>1 DEF Fills
  <2>2. IsRight(m, n)
    BY <1>4
  <2>3. Upto(n) \in Seq(Turns) /\ Upto(n + 1) = Append(Upto(n), t)
    OBVIOUS
  <2> HIDE DEF m, t
  <2>4. MemoryInv(Add(m, t)) /\ Add(m, t).begun
    BY <2>1, <2>2, AddIs
  <2>5. Add(m, t).live \in Seq(A)
    BY <2>1, <2>2, AddIn
  <2>6. ASSUME NEW V PROVE Agree(Add(m, t), Upto(n + 1), V)
    <3>1. Agree(m, Upto(n), V)
      BY <2>2
    <3> QED BY <2>1, <2>2, <2>3, <3>1, AgreeAdd
  <2> HIDE DEF Upto
  <2> QED BY <2>1, <2>4, <2>5, <2>6
<1> HIDE DEF T
<1>5. Len(s) \in T
  BY <1>3, <1>4, Induction
<1>6. Upto(Len(s)) = s /\ Len(s) \in Nat /\ (Len(s) # 0 <=> s # <<>>)
  OBVIOUS
<1>7. IsRight(filled[Len(s)], Len(s))
  BY <1>5, <1>6 DEF T
<1> HIDE DEF Upto
<1>8. MemoryInv(filled[Len(s)]) /\ (filled[Len(s)].begun <=> Len(s) # 0) /\ filled[Len(s)].live \in Seq(A)
  BY <1>7
<1>9. \A V : Agree(filled[Len(s)], s, V)
  BY <1>6, <1>7
<1> QED BY <1>2, <1>6, <1>8, <1>9

LEMMA HistoryIs ==
    ASSUME NEW m, MemoryInv(m), NEW A, m.live \in Seq(A)
    PROVE  History(m) \in Seq(A) /\ History(m) \in Seq(Turns)
<1> DEFINE fits == {k \in 0..Len(m.live) : Tokens(Newest(m.live, k)) <= HistoryTokens}
           n == Len(m.live)
           S == {n - k : k \in fits}
           Longest(k) == k \in fits /\ \A l \in fits : l <= k
<1>1. m.live \in Seq(Turns) /\ n \in Nat
  BY DEF MemoryInv, MemoryStates
<1>2. 0 \in fits
  <2>1. Newest(m.live, 0) = <<>>
    <3>1. Len(Newest(m.live, 0)) = 0 /\ Newest(m.live, 0) \in Seq(Turns)
      BY <1>1, NewestIs
    <3> QED BY <3>1
  <2> QED BY <1>1, <2>1, TokensEmpty, ConversationsAssumption
<1>3. fits \subseteq 0..n
  OBVIOUS
<1> HIDE DEF fits
<1>4. S \in SUBSET Nat /\ S # {}
  BY <1>1, <1>2, <1>3
<1>5. PICK s \in S : \A t \in S : s <= t
  BY <1>4, LeastExists
<1>6. \E k \in fits : \A l \in fits : l <= k
  <2>1. PICK k \in fits : s = n - k
    BY <1>5
  <2>2. ASSUME NEW l \in fits PROVE l <= k
    <3>1. n - k <= n - l
      BY <1>5, <2>1, <2>2
    <3> QED BY <1>1, <1>3, <2>1, <3>1
  <2> QED BY <2>2
<1> DEFINE k == CHOOSE k \in fits : \A l \in fits : l <= k
<1>7. k \in fits
  BY <1>6
<1>8. History(m) = Newest(m.live, k)
  BY DEF History, fits
<1> HIDE DEF k
<1>9. k \in Nat
  BY <1>1, <1>3, <1>7
<1> QED BY <1>1, <1>8, <1>9, NewestIs

-----------------------------------------------------------------------------
(* The requests.                                                           *)

RequestStates == [at : ChatStages, of : 0..MaxQuestions, streams : BOOLEAN, service : 0..MaxServices,
                  read : Nat, prompt : Seq(Turns)]
Until(n) == {t \in Turns : t.of <= n}
Unsure == odd \cup InFlight
NotOdd == {t \in Turns : t.of \notin odd}
Remembers == service # 0 /\ memory[service].begun
Lonely(c) == \A d \in Callers : request[d].at # "idle" => d = c

ChatTypes ==
    /\ turns \in Seq(Until(asked)) /\ asked \in 0..MaxQuestions /\ odd \subseteq 1..asked
    /\ services \in 0..MaxServices /\ service \in 0..services
    /\ memory \in [1..MaxServices -> MemoryStates]
    /\ request \in [Callers -> RequestStates]

MemoriesInv ==
    \A s \in 1..MaxServices : /\ MemoryInv(memory[s]) /\ memory[s].live \in Seq(Until(asked))
                              /\ s > services => memory[s] = Nobody

\* What a request is told of, read from, and waits for.
RequestInv(c) ==
    LET q == request[c]
    IN  /\ q.at = "idle" => q = Unasked
        /\ q.at # "idle" => q.of \in 1..asked
        /\ q.service <= services
        /\ q.at \in {"told", "seeded"} => q.streams
        /\ q.at = "citing" => q.streams /\ q.read \in {0, 2}
        /\ q.at \in {"seeded", "retrieving", "citing"} => q.service # 0
        /\ q.at = "told" => q.read <= Len(turns) /\ Oldest(q.read) \in Seq(Others(q.of))
        /\ q.at \in {"generating", "citing"} /\ q.service # 0 => memory[q.service].begun
        /\ q.at \in {"seeded", "retrieving"} /\ q.service = service /\ ~ memory[service].begun =>
              \A i \in 1..Len(turns) : turns[i].of \in Unsure
        /\ q.of \notin odd => q.prompt \in Seq(Others(q.of))

\* The request that nothing comes between, and where its turns are.
AloneInv(c) ==
    LET q == request[c]
    IN  /\ q.of = asked /\ Lonely(c)
        /\ q.at \in {"told", "seeded", "retrieving"} =>
              /\ \E before \in Seq(Others(q.of)) : turns = Append(before, Turn("user", q.of, 1))
              /\ q.service # 0 => memory[q.service].live \in Seq(Others(q.of))
        /\ q.at = "generating" /\ q.service = service /\ service # 0 =>
              Agree(memory[service], turns, NotOdd)
        /\ q.at = "citing" /\ q.service = service =>
              Agree(memory[service], Append(turns, Turn("assistant", q.of, q.read)), NotOdd)
        /\ q.service # service => ~ Remembers

RequestsInv == \A c \in Callers : RequestInv(c)
AlonesInv == \A c \in Callers : request[c].at # "idle" /\ request[c].of \notin odd => AloneInv(c)
InStepInv == Remembers => Agree(memory[service], turns, InStep)

ChatInv == ChatTypes /\ MemoriesInv /\ RequestsInv /\ AlonesInv /\ InStepInv

LEMMA UntilIs ==
    /\ \A n \in Nat : Until(n) \subseteq Turns /\ Until(n) \subseteq Until(n + 1) /\ Until(n) \subseteq Others(n + 1)
    /\ \A n : Others(n) \subseteq Turns
    /\ \A n \in 1..MaxQuestions, r \in {"user", "assistant"}, k \in {0, 1, 2} :
          Turn(r, n, k) \in Turns => Turn(r, n, k) \in Until(n)
BY TurnTypes DEF Until, Others

LEMMA ListIsIn ==
    ASSUME NEW S, NEW T, S \subseteq T
    PROVE  Seq(S) \subseteq Seq(T)
BY SeqMonotonic

\* What a request that is not in step with the database sees of it.
LEMMA InvIs ==
    ASSUME ChatInv
    PROVE  /\ turns \in Seq(Turns) /\ asked \in Nat /\ services \in Nat /\ service \in Nat
           /\ service # 0 => service \in 1..MaxServices /\ MemoryInv(memory[service])
           /\ service # 0 /\ ~ memory[service].begun => memory[service] = Nobody
           /\ \A r \in 1..services : /\ r \in 1..MaxServices /\ MemoryInv(memory[r])
                                     /\ memory[r].live \in Seq(Until(asked))
<1>1. asked \in Nat /\ turns \in Seq(Until(asked))
  BY ConversationsAssumption DEF ChatInv, ChatTypes
<1>2. turns \in Seq(Turns)
  BY <1>1, UntilIs, ListIsIn
<1>3. services \in Nat /\ service \in Nat /\ \A r \in 1..services : r \in 1..MaxServices
  BY ConversationsAssumption DEF ChatInv, ChatTypes
<1>4. \A r \in 1..services : MemoryInv(memory[r]) /\ memory[r].live \in Seq(Until(asked))
  BY <1>3 DEF ChatInv, MemoriesInv
<1>5. service # 0 => service \in 1..services
  BY ConversationsAssumption DEF ChatInv, ChatTypes
<1> QED BY <1>1, <1>2, <1>3, <1>4, <1>5 DEF MemoryInv

LEMMA SeededIs ==
    ASSUME NEW m, MemoryInv(m), NEW A, A \subseteq Turns, m.live \in Seq(A),
           NEW s \in Seq(Turns), NEW k \in 0..Len(s), SubSeq(s, 1, k) \in Seq(A)
    PROVE  LET n == Seeded(m, SubSeq(s, 1, k))
           IN  /\ MemoryInv(n) /\ n.live \in Seq(A) /\ (n.begun <=> m.begun \/ k # 0)
               /\ m.begun => n = m
               /\ \A V : (IF m.begun THEN Agree(m, s, V) ELSE \A i \in k + 1..Len(s) : s[i] \notin V)
                         => Agree(n, s, V)
<1> DEFINE n == Seeded(m, SubSeq(s, 1, k))
<1>1. CASE m.begun
  <2>1. n = m
    BY <1>1 DEF Seeded
  <2> QED BY <1>1, <2>1
<1>2. CASE ~ m.begun
  <2> DEFINE f == SubSeq(s, 1, k)  l == SubSeq(s, k + 1, Len(s))
  <2>1. m = Nobody
    BY <1>2 DEF MemoryInv
  <2>2. n = Filled(Nobody, f)
    BY <1>2, <2>1 DEF Seeded
  <2>3. f \in Seq(Turns) /\ Len(f) = k /\ l \in Seq(Turns) /\ s = f \o l
    <3>1. f \in Seq(Turns) /\ Len(f) = k /\ \A i \in 1..k : f[i] = s[i]
      OBVIOUS
    <3>2. l \in Seq(Turns) /\ Len(l) = Len(s) - k /\ \A i \in 1..Len(s) - k : l[i] = s[k + i]
      OBVIOUS
    <3> HIDE DEF f, l
    <3>3. f \o l \in Seq(Turns) /\ Len(f \o l) = Len(s)
      BY <3>1, <3>2
    <3>4. ASSUME NEW i \in 1..Len(s) PROVE (f \o l)[i] = s[i]
      <4>1. (f \o l)[i] = IF i <= Len(f) THEN f[i] ELSE l[i - Len(f)]
        BY <3>1, <3>2, ConcatProperties
      <4>2. CASE i <= k
        BY <3>1, <4>1, <4>2
      <4>3. CASE i > k
        <5>1. i - k \in 1..Len(s) - k /\ k + (i - k) = i
          BY <4>3
        <5>2. l[i - k] = s[i]
          <6>1. l[i - k] = s[k + (i - k)]
            BY <3>2, <5>1
          <6> QED BY <5>1, <6>1, Zenon
        <5>3. ~ (i <= Len(f)) /\ i - Len(f) = i - k
          BY <3>1, <4>3
        <5> QED BY <4>1, <5>2, <5>3, Zenon
      <4>4. i <= k \/ i > k
        OBVIOUS
      <4> QED BY <4>2, <4>3, <4>4, Zenon
    <3> QED BY <3>1, <3>2, <3>3, <3>4, SeqEqual
  <2>4. f \in Seq(A)
    BY Zenon
  <2>5. f # <<>> <=> k # 0
    BY <2>3
  <2>6. \A i \in 1..Len(l) : l[i] = s[k + i] /\ k + i \in k + 1..Len(s)
    OBVIOUS
  <2> HIDE DEF n, f, l
  <2>7. MemoryInv(n) /\ (n.begun <=> k # 0) /\ n.live \in Seq(A) /\ \A V : Agree(n, f, V)
    BY <2>2, <2>3, <2>4, <2>5, FilledIs
  <2>8. ASSUME NEW V, \A i \in k + 1..Len(s) : s[i] \notin V
        PROVE  Agree(n, s, V)
    <3> DEFINE L == {l[i] : i \in 1..Len(l)}
    <3>1. l \in Seq(L) /\ L \cap (V \cap Said) = {}
      <4>1. \A i \in 1..Len(l) : l[i] \notin V
        BY <2>6, <2>8
      <4>2. L \cap (V \cap Said) = {}
        BY <4>1
      <4>3. l \in Seq(L)
        <5>1. \A i \in 1..Len(l) : l[i] \in L
          OBVIOUS
        <5> HIDE DEF L
        <5> QED BY <2>3, <5>1
      <4> HIDE DEF L
      <4> QED BY <4>2, <4>3
    <3> HIDE DEF L
    <3>2. Among(l, V \cap Said) = <<>>
      BY <3>1, AmongNone
    <3>3. Among(s, V \cap Said) = Among(f, V \cap Said) \o Among(l, V \cap Said)
      <4>1. Among(f \o l, V \cap Said) = Among(f, V \cap Said) \o Among(l, V \cap Said)
        <5>1. \A t \in Seq(Turns) : Among(f \o t, V \cap Said) = Among(f, V \cap Said) \o Among(t, V \cap Said)
          <6> DEFINE W == V \cap Said
          <6> HIDE DEF W
          <6>1. \A t \in Seq(Turns) : Among(f \o t, W) = Among(f, W) \o Among(t, W)
            BY <2>3, AmongConcat
          <6> QED BY <6>1, Zenon DEF W
        <5> QED BY <2>3, <5>1
      <4> QED BY <2>3, <4>1, Zenon
    <3>4. Among(f, V \cap Said) \in Seq(Turns)
      BY <2>3, AmongIn
    <3>5. Among(s, V \cap Said) = Among(f, V \cap Said)
      <4> DEFINE a == Among(f, V \cap Said)
      <4>1. a \in Seq(Turns)
        BY <3>4
      <4> HIDE DEF a
      <4>2. a \o <<>> = a
        BY <4>1
      <4>3. Among(s, V \cap Said) = a \o <<>>
        BY <3>2, <3>3, Zenon DEF a
      <4>4. Among(f, V \cap Said) = a
        BY DEF a
      <4> QED BY <4>2, <4>3, <4>4
    <3>6. Agree(n, f, V)
      BY <2>7
    <3> QED BY <3>5, <3>6, Zenon DEF Agree
  <2> QED BY <1>2, <2>7, <2>8 DEF n, f
<1> QED BY <1>1, <1>2

LEMMA InitIsInv == ChatInit => ChatInv
<1> SUFFICES ASSUME ChatInit PROVE ChatInv
  OBVIOUS
<1> USE ConversationsAssumption
<1>1. Unasked \in RequestStates /\ Unasked.of = 0 /\ Unasked.at = "idle" /\ Unasked.prompt = <<>> /\ Unasked.service = 0
  BY DEF Unasked, RequestStates, ChatStages
<1>2. Nobody \in MemoryStates /\ Nobody.live = <<>> /\ MemoryInv(Nobody) /\ ~ Nobody.begun
  BY NobodyIs DEF MemoryInv
<1>3. \A S : <<>> \in Seq(S)
  OBVIOUS
<1>4. ChatTypes
  <2>1. turns \in Seq(Until(asked)) /\ asked \in 0..MaxQuestions /\ odd \subseteq 1..asked
    BY <1>3 DEF ChatInit
  <2>2. services \in 0..MaxServices /\ service \in 0..services
    BY DEF ChatInit
  <2>3. memory \in [1..MaxServices -> MemoryStates] /\ request \in [Callers -> RequestStates]
    BY <1>1, <1>2 DEF ChatInit
  <2> QED BY <2>1, <2>2, <2>3 DEF ChatTypes
<1>5. MemoriesInv
  BY <1>2, <1>3 DEF ChatInit, MemoriesInv
<1>6. RequestsInv
  <2> SUFFICES ASSUME NEW c \in Callers PROVE RequestInv(c)
    BY DEF RequestsInv
  <2>1. request[c] = Unasked /\ service = 1 /\ services = 1
    BY DEF ChatInit
  <2>2. Unasked.at \notin {"told", "seeded", "citing", "retrieving", "generating"} /\ Unasked.prompt \in Seq(Others(0))
        /\ Unasked.service <= 1
    BY <1>1, <1>3
  <2> QED BY <1>1, <2>1, <2>2 DEF RequestInv
<1>7. AlonesInv
  BY <1>1 DEF ChatInit, AlonesInv
<1>8. InStepInv
  BY <1>2 DEF ChatInit, InStepInv, Remembers
<1> QED BY <1>4, <1>5, <1>6, <1>7, <1>8 DEF ChatInv

-----------------------------------------------------------------------------
(* A step of the request of c.                                             *)

Moves(c, q) ==
    /\ request' = [request EXCEPT ![c] = q] /\ q \in RequestStates
    /\ service' = service /\ services' = services
    /\ asked' \in asked..MaxQuestions /\ odd \subseteq odd' /\ odd' \subseteq 1..asked'
    /\ request[c].at # "idle" \/ InFlight \subseteq odd'
    /\ Lonely(c) \/ Unsure \subseteq Unsure'
    /\ \/ turns' = turns
       \/ \E t \in Until(asked') : turns' = Append(turns, t) /\ (Lonely(c) \/ t.of \in Unsure')
    /\ \/ memory' = memory
       \/ \E r \in 1..services, m \in MemoryStates :
                                    /\ MemoryInv(m) /\ m.live \in Seq(Until(asked'))
                                    /\ memory[r].begun => m.begun
                                    /\ memory' = [memory EXCEPT ![r] = m]

LEMMA FlightIs ==
    ASSUME ChatTypes, NEW c \in Callers, NEW q \in RequestStates, request' = [request EXCEPT ![c] = q]
    PROVE  /\ InFlight' \subseteq InFlight \cup {q.of}
           /\ InFlight \subseteq InFlight' \cup {request[c].of}
           /\ q.at # "idle" => q.of \in InFlight'
           /\ request[c].at # "idle" => request[c].of \in InFlight
           /\ request[c].at # "idle" /\ q.at # "idle" /\ q.of = request[c].of => InFlight' = InFlight
           /\ request[c].at = "idle" => InFlight \subseteq InFlight'
           /\ Lonely(c) => InFlight \subseteq {request[c].of}
           /\ Lonely(c) /\ q.at = "idle" => InFlight' = {}
           /\ Lonely(c) => Lonely(c)'
<1>1. /\ \A d \in Callers : request'[d] = IF d = c THEN q ELSE request[d]
      /\ request'[c] = q
  BY DEF ChatTypes
<1> QED BY <1>1 DEF InFlight, Lonely

LEMMA MoveTypes ==
    ASSUME ChatInv, NEW c \in Callers, NEW q, Moves(c, q)
    PROVE  ChatTypes' /\ MemoriesInv' /\ \A r \in 1..MaxServices : memory[r].begun => memory'[r].begun
<1> USE ConversationsAssumption
<1>1. asked' \in asked..MaxQuestions /\ asked \in 0..MaxQuestions /\ services \in 0..MaxServices /\ services' = services
  BY DEF Moves, ChatInv, ChatTypes
<1>2. Until(asked) \subseteq Until(asked')
  BY <1>1, TurnTypes DEF Until
<1>3. turns' \in Seq(Until(asked'))
  <2>1. turns \in Seq(Until(asked'))
    BY <1>2, ListIsIn DEF ChatInv, ChatTypes
  <2> QED BY <2>1 DEF Moves
<1>4. \A s \in 1..MaxServices : memory[s].live \in Seq(Until(asked'))
  BY <1>2, ListIsIn DEF ChatInv, MemoriesInv
<1>5. memory' \in [1..MaxServices -> MemoryStates] /\ MemoriesInv'
      /\ \A r \in 1..MaxServices : memory[r].begun => memory'[r].begun
  <2>1. CASE memory' = memory
    BY <1>1, <1>4, <2>1 DEF ChatInv, ChatTypes, MemoriesInv
  <2>2. CASE memory' # memory
    <3>1. PICK r \in 1..services, m \in MemoryStates :
                                      /\ MemoryInv(m) /\ m.live \in Seq(Until(asked'))
                                      /\ memory[r].begun => m.begun
                                      /\ memory' = [memory EXCEPT ![r] = m]
      BY <2>2 DEF Moves
    <3>2. r \in 1..MaxServices /\ m \in MemoryStates /\ memory \in [1..MaxServices -> MemoryStates]
      BY <1>1, <3>1 DEF ChatInv, ChatTypes, MemoryInv
    <3>3. \A s \in 1..MaxServices : memory'[s] = IF s = r THEN m ELSE memory[s]
      BY <3>1, <3>2
    <3>4. memory' \in [1..MaxServices -> MemoryStates]
      BY <3>1, <3>2
    <3>5. MemoriesInv'
      <4> SUFFICES ASSUME NEW s \in 1..MaxServices
                   PROVE  /\ MemoryInv(memory'[s]) /\ memory'[s].live \in Seq(Until(asked'))
                          /\ s > services' => memory'[s] = Nobody
        BY DEF MemoriesInv
      <4>1. CASE s = r
        BY <1>1, <3>1, <3>3, <4>1
      <4>2. CASE s # r
        <5>1. memory'[s] = memory[s]
          BY <3>3, <4>2
        <5> QED BY <1>1, <1>4, <5>1 DEF ChatInv, MemoriesInv
      <4> QED BY <4>1, <4>2
    <3> QED BY <3>1, <3>3, <3>4, <3>5
  <2> QED BY <2>1, <2>2
<1>6. request' \in [Callers -> RequestStates]
  BY DEF Moves, ChatInv, ChatTypes
<1>7. asked' \in 0..MaxQuestions /\ odd' \subseteq 1..asked' /\ services' \in 0..MaxServices /\ service' \in 0..services'
  BY <1>1 DEF Moves, ChatInv, ChatTypes
<1> QED BY <1>3, <1>5, <1>6, <1>7 DEF ChatTypes

LEMMA MoveOthers ==
    ASSUME ChatInv, NEW c \in Callers, NEW q, Moves(c, q), NEW d \in Callers, d # c
    PROVE  RequestInv(d)'
<1> USE ConversationsAssumption
<1>1. request'[d] = request[d] /\ request[d] \in RequestStates /\ RequestInv(d)
  BY DEF Moves, ChatInv, ChatTypes, RequestsInv
<1> DEFINE p == request[d]
<1>2. CASE p.at = "idle"
  <2>1. p = Unasked
    BY <1>1, <1>2 DEF RequestInv
  <2>2. Unasked.at = "idle" /\ Unasked.service = 0 /\ Unasked.prompt = <<>> /\ Unasked.of = 0
    BY DEF Unasked
  <2>3. 0 <= services' /\ <<>> \in Seq(Others(0))
    BY DEF Moves, ChatInv, ChatTypes
  <2> QED BY <1>1, <2>1, <2>2, <2>3 DEF RequestInv
<1>3. CASE p.at # "idle"
  <2>1. ~ Lonely(c)
    BY <1>3 DEF Lonely
  <2>2. Unsure \subseteq Unsure' /\ service' = service /\ services' = services /\ odd \subseteq odd'
        /\ asked' \in asked..MaxQuestions
    BY <2>1 DEF Moves
  <2>3. turns' = turns \/ \E t \in Until(asked') : turns' = Append(turns, t) /\ t.of \in Unsure'
    BY <2>1 DEF Moves
  <2>4. turns \in Seq(Turns) /\ asked \in 0..MaxQuestions
    BY InvIs DEF ChatInv, ChatTypes
  <2>5. Len(turns) <= Len(turns') /\ \A i \in 1..Len(turns) : turns'[i] = turns[i]
    BY <2>3, <2>4
  <2>6. p.of \in 1..asked' /\ p.service <= services'
    BY <1>1, <1>3, <2>2, <2>4 DEF RequestInv
  <2>7. ASSUME p.at = "told" PROVE p.read <= Len(turns') /\ SubSeq(turns', 1, p.read) \in Seq(Others(p.of))
    <3>1. p.read \in Nat /\ p.read <= Len(turns) /\ SubSeq(turns, 1, p.read) \in Seq(Others(p.of))
      BY <1>1, <2>7 DEF RequestInv, RequestStates, Oldest
    <3>2. turns' \in Seq(Turns)
      <4>1. \A t \in Until(asked') : t \in Turns
        BY DEF Until
      <4> QED BY <2>3, <2>4, <4>1
    <3>3. SubSeq(turns', 1, p.read) = SubSeq(turns, 1, p.read)
      <4> HIDE DEF p
      <4> DEFINE n == p.read
      <4>1. n \in Nat /\ n <= Len(turns)
        BY <3>1
      <4> HIDE DEF n
      <4>2. \A i \in 1..n : turns'[i] = turns[i]
        BY <2>4, <2>5, <4>1
      <4>3. SubSeq(turns', 1, n) = SubSeq(turns, 1, n)
        BY <2>4, <2>5, <3>2, <4>1, <4>2
      <4> QED BY <4>3 DEF n
    <3>4. p.read <= Len(turns')
      BY <2>4, <2>5, <3>1, <3>2
    <3> QED BY <3>1, <3>3, <3>4
  <2>8. ASSUME p.at \in {"generating", "citing"}, p.service # 0 PROVE memory'[p.service].begun
    <3>1. p.service \in 1..MaxServices /\ memory[p.service].begun
      BY <1>1, <2>8 DEF RequestInv, RequestStates
    <3> QED BY <3>1, MoveTypes
  <2>9. ASSUME p.at \in {"seeded", "retrieving"}, p.service = service, ~ memory'[service].begun
        PROVE  \A i \in 1..Len(turns') : turns'[i].of \in Unsure'
    <3>1. service \in 1..MaxServices
      BY <1>1, <2>9 DEF RequestInv, RequestStates
    <3>2. \A i \in 1..Len(turns) : turns[i].of \in Unsure
      BY <1>1, <2>9, <3>1, MoveTypes DEF RequestInv
    <3>3. CASE turns' = turns
      BY <2>2, <3>2, <3>3
    <3>4. ASSUME NEW t \in Until(asked'), turns' = Append(turns, t), t.of \in Unsure'
          PROVE  \A i \in 1..Len(turns') : turns'[i].of \in Unsure'
      <4>1. t \in Turns
        BY DEF Until
      <4>2. \A i \in 1..Len(turns') : (i \in 1..Len(turns) /\ turns'[i] = turns[i]) \/ turns'[i] = t
        BY <2>4, <3>4, <4>1
      <4> QED BY <2>2, <3>2, <3>4, <4>2
    <3> QED BY <2>3, <3>3, <3>4
  <2> HIDE DEF p
  <2>10. RequestInv(d) /\ request[d] = p /\ request'[d] = p
    BY <1>1 DEF p
  <2>11. /\ p.at \in {"told", "seeded"} => p.streams
         /\ p.at = "citing" => p.streams /\ p.read \in {0, 2}
         /\ p.at \in {"seeded", "retrieving", "citing"} => p.service # 0
         /\ p.of \notin odd' => p.prompt \in Seq(Others(p.of))
    BY <2>2, <2>10 DEF RequestInv
  <2> QED BY <1>3, <2>2, <2>6, <2>7, <2>8, <2>9, <2>10, <2>11 DEF RequestInv, Oldest
<1> QED BY <1>2, <1>3

LEMMA MoveAlone ==
    ASSUME ChatInv, NEW c \in Callers, NEW q, Moves(c, q), NEW d \in Callers, d # c,
           request'[d].at # "idle"
    PROVE  request'[d].of \in odd'
<1>1. request'[d] = request[d] /\ request[d] \in RequestStates
  BY DEF Moves, ChatInv, ChatTypes
<1>2. ASSUME request[d].of \notin odd PROVE request[c].at = "idle"
  <2>1. Lonely(d)
    BY <1>1, <1>2 DEF ChatInv, AlonesInv, AloneInv
  <2> QED BY <2>1 DEF Lonely
<1>3. request[d].of \in InFlight
  BY <1>1 DEF InFlight
<1> QED BY <1>1, <1>2, <1>3 DEF Moves

LEMMA MoveIs ==
    ASSUME ChatInv, NEW c \in Callers, NEW q, Moves(c, q),
           RequestInv(c)', q.at # "idle" /\ q.of \notin odd' => AloneInv(c)', InStepInv'
    PROVE  ChatInv'
<1>1. request'[c] = q
  BY DEF Moves, ChatInv, ChatTypes
<1>2. RequestsInv'
  BY MoveOthers DEF RequestsInv
<1>3. AlonesInv'
  BY <1>1, MoveAlone DEF AlonesInv
<1> QED BY <1>2, <1>3, MoveTypes DEF ChatInv

LEMMA HereIs ==
    ASSUME ChatInv, NEW c \in Callers
    PROVE  LET q == request[c]
           IN  /\ q \in RequestStates /\ RequestInv(c)
               /\ q.at # "idle" /\ q.of \notin odd => AloneInv(c)
               /\ q.at # "idle" => q.of \in 1..asked /\ q.of \in 1..MaxQuestions /\ q.of \in InFlight
               /\ q.service # 0 => /\ q.service \in 1..services /\ q.service \in 1..MaxServices
                                   /\ MemoryInv(memory[q.service])
                                   /\ memory[q.service].live \in Seq(Until(asked))
               /\ asked \in 0..MaxQuestions /\ services \in 0..MaxServices /\ service \in 0..services
               /\ memory \in [1..MaxServices -> MemoryStates] /\ turns \in Seq(Turns)
<1> DEFINE q == request[c]
<1> USE ConversationsAssumption
<1>1. q \in RequestStates /\ RequestInv(c) /\ (q.at # "idle" /\ q.of \notin odd => AloneInv(c))
  BY DEF ChatInv, ChatTypes, RequestsInv, AlonesInv
<1>2. /\ asked \in 0..MaxQuestions /\ services \in 0..MaxServices /\ service \in 0..services
      /\ memory \in [1..MaxServices -> MemoryStates] /\ turns \in Seq(Turns)
  BY InvIs DEF ChatInv, ChatTypes
<1>3. q.at # "idle" => q.of \in 1..asked /\ q.of \in 1..MaxQuestions /\ q.of \in InFlight
  BY <1>1, <1>2 DEF RequestInv, InFlight
<1>4. q.service <= services /\ q.service \in 0..MaxServices
  BY <1>1 DEF RequestInv, RequestStates
<1>5. q.service # 0 => /\ q.service \in 1..services /\ q.service \in 1..MaxServices
                       /\ MemoryInv(memory[q.service])
                       /\ memory[q.service].live \in Seq(Until(asked))
  BY <1>2, <1>4 DEF ChatInv, MemoriesInv
<1> QED BY <1>1, <1>2, <1>3, <1>5

LEMMA UnaskedIs ==
    /\ Unasked \in RequestStates /\ Unasked.at = "idle" /\ Unasked.of = 0 /\ Unasked.service = 0
    /\ Unasked.prompt = <<>> /\ ~ Unasked.streams
BY ConversationsAssumption DEF Unasked, RequestStates, ChatStages

\* A request ends.
LEMMA Leaves ==
    ASSUME ChatInv, NEW c \in Callers, request[c].at # "idle",
           request' = [request EXCEPT ![c] = Unasked], UNCHANGED <<service, services, asked>>,
           odd \subseteq odd', odd' \subseteq odd \cup {request[c].of},
           turns' = turns \/ \E t \in Turns : t.of = request[c].of /\ turns' = Append(turns, t),
           memory' = memory \/ \E r \in 1..services, t \in Turns :
                                   t.of = request[c].of /\ memory[r].begun
                                   /\ memory' = [memory EXCEPT ![r] = Add(memory[r], t)],
           request[c].of \notin odd' /\ Remembers => Agree(memory'[service], turns', NotOdd)
    PROVE  ChatInv'
<1> USE ConversationsAssumption
<1> DEFINE n == request[c].of
<1>1. /\ request[c] \in RequestStates /\ n \in 1..asked /\ n \in InFlight
      /\ asked \in 0..MaxQuestions /\ services \in 0..MaxServices /\ service \in 0..services
      /\ memory \in [1..MaxServices -> MemoryStates] /\ turns \in Seq(Turns)
  BY HereIs
<1>2. Unasked \in RequestStates /\ Unasked.at = "idle" /\ Unasked.of = 0 /\ Unasked.service = 0
      /\ Unasked.prompt = <<>>
  BY UnaskedIs
<1>3. /\ InFlight \subseteq InFlight' \cup {n} /\ (Lonely(c) => InFlight' = {})
  BY <1>2, FlightIs DEF ChatInv
<1>4. n \notin odd' => Lonely(c) /\ odd' = odd
  <2> SUFFICES ASSUME n \notin odd' PROVE Lonely(c) /\ odd' = odd
    OBVIOUS
  <2>1. n \notin odd /\ odd' = odd
    OBVIOUS
  <2>2. AloneInv(c)
    BY <2>1, HereIs
  <2> QED BY <2>1, <2>2 DEF AloneInv
<1>5. n \in odd' => Unsure \subseteq Unsure'
  BY <1>3 DEF Unsure
<1>6. \A t \in Turns : t.of = n => t \in Until(asked)
  BY <1>1 DEF Until
<1>7. \A r \in 1..services : MemoryInv(memory[r]) /\ memory[r].live \in Seq(Until(asked))
  BY InvIs
<1>8. Moves(c, Unasked)
  <2>1. asked' \in asked..MaxQuestions /\ odd' \subseteq 1..asked'
    BY <1>1 DEF ChatInv, ChatTypes
  <2>2. Lonely(c) \/ Unsure \subseteq Unsure'
    BY <1>4, <1>5
  <2>3. \/ turns' = turns
        \/ \E t \in Until(asked') : turns' = Append(turns, t) /\ (Lonely(c) \/ t.of \in Unsure')
    <3>1. Lonely(c) \/ n \in Unsure'
      BY <1>4 DEF Unsure
    <3> QED BY <1>6, <3>1
  <2>4. \/ memory' = memory
        \/ \E r \in 1..services, m \in MemoryStates :
                                     /\ MemoryInv(m) /\ m.live \in Seq(Until(asked'))
                                     /\ memory[r].begun => m.begun
                                     /\ memory' = [memory EXCEPT ![r] = m]
    <3> SUFFICES ASSUME NEW r \in 1..services, NEW t \in Turns, t.of = n,
                        memory' = [memory EXCEPT ![r] = Add(memory[r], t)]
                 PROVE  /\ MemoryInv(Add(memory[r], t)) /\ Add(memory[r], t).live \in Seq(Until(asked'))
                        /\ Add(memory[r], t).begun
      BY DEF MemoryInv
    <3>1. t \in Until(asked)
      BY <1>6
    <3> QED BY <1>7, <3>1, AddIs, AddIn
  <2> QED BY <1>2, <2>1, <2>2, <2>3, <2>4 DEF Moves
<1>9. RequestInv(c)'
  <2>1. request'[c] = Unasked /\ 0 <= services'
    BY <1>1 DEF ChatInv, ChatTypes
  <2>2. <<>> \in Seq(Others(0))
    OBVIOUS
  <2> QED BY <1>2, <2>1, <2>2 DEF RequestInv
<1>10. InStepInv'
  <2> SUFFICES ASSUME service # 0, memory'[service].begun PROVE Agree(memory'[service], turns', InStep')
    BY DEF InStepInv, Remembers
  <2>1. service \in 1..MaxServices /\ MemoryInv(memory[service]) /\ memory[service].begun
    <3>1. service \in 1..MaxServices
      BY <1>1
    <3>2. memory[service].begun
      <4>1. CASE memory' = memory
        BY <4>1
      <4>2. CASE memory' # memory
        <5>1. PICK r \in 1..services, t \in Turns : memory[r].begun /\ memory' = [memory EXCEPT ![r] = Add(memory[r], t)]
          BY <4>2
        <5> QED BY <1>1, <3>1, <5>1
      <4> QED BY <4>1, <4>2
    <3> QED BY <3>1, <3>2 DEF ChatInv, MemoriesInv
  <2>2. Remembers /\ Agree(memory[service], turns, InStep)
    BY <2>1 DEF Remembers, ChatInv, InStepInv
  <2>3. CASE n \in odd'
    <3>1. InStep' \subseteq InStep
      BY <1>5, <2>3 DEF InStep, Unsure
    <3>2. Agree(memory[service], turns, InStep')
      BY <1>1, <2>1, <2>2, <3>1, AgreeLess
    <3>3. \A t \in Turns : t.of = n => t \notin InStep'
      BY <2>3 DEF InStep
    <3> DEFINE V == InStep'
    <3> HIDE DEF V
    <3>4. Agree(memory[service], turns', V)
      <4>1. CASE turns' = turns
        BY <3>2, <4>1 DEF V
      <4>2. CASE turns' # turns
        <5>1. PICK t \in Turns : t.of = n /\ turns' = Append(turns, t)
          BY <4>2
        <5>2. Agree(memory[service], Append(turns, t), V) <=> Agree(memory[service], turns, V)
          BY <1>1, <3>3, <5>1, AgreeSkip DEF V
        <5> QED BY <3>2, <5>1, <5>2 DEF V
      <4> QED BY <4>1, <4>2
    <3>5. turns' \in Seq(Turns)
      <4>1. \A t \in Turns : Append(turns, t) \in Seq(Turns)
        BY <1>1
      <4> QED BY <1>1, <4>1
    <3>6. Agree(memory'[service], turns', V)
      <4>1. CASE memory'[service] = memory[service]
        BY <3>4, <4>1
      <4>2. CASE memory'[service] # memory[service]
        <5>1. PICK r \in 1..services, t \in Turns : t.of = n /\ memory' = [memory EXCEPT ![r] = Add(memory[r], t)]
          BY <4>2
        <5>2. memory'[service] = Add(memory[service], t)
          BY <1>1, <2>1, <4>2, <5>1
        <5>3. Agree(Add(memory[service], t), turns', V)
          BY <2>1, <3>3, <3>4, <3>5, <5>1, AgreeAside DEF V
        <5> QED BY <5>2, <5>3
      <4> QED BY <4>1, <4>2
    <3> QED BY <3>6 DEF V
  <2>4. CASE n \notin odd'
    <3>1. InStep' = NotOdd
      <4>1. InFlight' = {} /\ odd' = odd
        BY <1>3, <1>4, <2>4
      <4> QED BY <4>1 DEF InStep, NotOdd
    <3> QED BY <2>2, <2>4, <3>1
  <2> QED BY <2>3, <2>4
<1> QED BY <1>2, <1>8, <1>9, <1>10, MoveIs

\* What is agreed about when nothing came between the request and its answer.
LEMMA AloneAgrees ==
    ASSUME ChatInv, NEW c \in Callers, request[c].at # "idle", request[c].of \notin odd, Remembers
    PROVE  /\ request[c].service = service /\ service # 0 /\ service \in 1..MaxServices
           /\ MemoryInv(memory[service])
           /\ request[c].at = "generating" => Agree(memory[service], turns, NotOdd)
           /\ request[c].at = "citing" =>
                 Agree(memory[service], Append(turns, Turn("assistant", request[c].of, request[c].read)), NotOdd)
<1>1. AloneInv(c) /\ service # 0
  BY HereIs DEF Remembers
<1>2. request[c].service = service
  BY <1>1 DEF AloneInv
<1> QED BY <1>1, <1>2, HereIs DEF AloneInv

LEMMA AnswerIs ==
    ASSUME ChatInv, NEW c \in Callers, request[c].at # "idle", NEW k \in {0, 2}
    PROVE  LET t == Turn("assistant", request[c].of, k)
           IN  t \in Turns /\ t \in Until(asked) /\ t.of = request[c].of /\ t.size = k
<1>1. request[c].of \in 1..asked /\ request[c].of \in 1..MaxQuestions
  BY HereIs
<1> QED BY <1>1, TurnTypes DEF Until

\* What has not begun agrees with rows that none are looked at of.
LEMMA NothingInStep ==
    ASSUME NEW s \in Seq(Turns), NEW V, \A i \in 1..Len(s) : s[i] \notin V
    PROVE  Agree(Nobody, s, V)
<1> DEFINE L == {s[i] : i \in 1..Len(s)}
<1>1. s \in Seq(L) /\ L \cap (V \cap Said) = {}
  <2>1. \A i \in 1..Len(s) : s[i] \in L
    OBVIOUS
  <2>2. L \cap (V \cap Said) = {}
    OBVIOUS
  <2> HIDE DEF L
  <2> QED BY <2>1, <2>2
<1> HIDE DEF L
<1>2. Among(s, V \cap Said) = <<>>
  BY <1>1, AmongNone
<1>3. Among(<<>>, V) = <<>> /\ IsSuffix(<<>>, <<>>)
  <2>1. <<>> \in Seq(Turns)
    OBVIOUS
  <2> QED BY <2>1, AmongEmpty, SuffixSelf
<1> QED BY <1>2, <1>3, NobodyIs DEF Agree

LEMMA StepAnswerWhole ==
    ASSUME ChatInv, NEW c \in Callers, AnswerWhole(c)
    PROVE  ChatInv'
<1>1. PICK k \in {0, 2} :
        LET q == request[c]
            t == Turn("assistant", q.of, k)
        IN  /\ q.at = "generating"
            /\ memory' = IF q.service = 0 THEN memory ELSE Remembered(c, t)
            /\ request' = [request EXCEPT ![c] = Unasked]
            /\ turns' = Append(turns, t)
            /\ UNCHANGED <<service, services, asked, odd>>
  BY DEF AnswerWhole
<1> DEFINE q == request[c]  t == Turn("assistant", q.of, k)
<1>2. t \in Turns /\ t.of = q.of /\ q.at # "idle"
  BY <1>1, AnswerIs
<1> HIDE DEF t
<1>3. q.service # 0 => q.service \in 1..services /\ q.service \in 1..MaxServices /\ memory[q.service].begun
  BY <1>1, HereIs DEF RequestInv
<1>4. memory' = memory \/ \E r \in 1..services, u \in Turns :
                             u.of = q.of /\ memory[r].begun /\ memory' = [memory EXCEPT ![r] = Add(memory[r], u)]
  <2>1. CASE q.service = 0
    BY <1>1, <2>1
  <2>2. CASE q.service # 0
    <3>1. memory' = [memory EXCEPT ![q.service] = Add(memory[q.service], t)]
      BY <1>1, <2>2 DEF Remembered, t
    <3> QED BY <1>2, <1>3, <2>2, <3>1
  <2> QED BY <2>1, <2>2
<1>5. turns' = Append(turns, t)
  BY <1>1 DEF t
<1>6. ASSUME q.of \notin odd', Remembers PROVE Agree(memory'[service], turns', NotOdd)
  <2>1. q.of \notin odd
    BY <1>1, <1>6
  <2>2. q.service = service /\ service # 0 /\ MemoryInv(memory[service]) /\ Agree(memory[service], turns, NotOdd)
    BY <1>1, <1>2, <1>6, <2>1, AloneAgrees
  <2>3. memory' = [memory EXCEPT ![service] = Add(memory[service], t)]
    BY <1>1, <2>2 DEF Remembered, t
  <2>4. memory'[service] = Add(memory[service], t)
    BY <1>3, <2>2, <2>3, HereIs
  <2>5. turns \in Seq(Turns)
    BY InvIs
  <2>6. Agree(Add(memory[service], t), Append(turns, t), NotOdd)
    BY <1>2, <2>2, <2>5, AgreeAdd
  <2> QED BY <1>5, <2>4, <2>6
<1> QED BY <1>1, <1>2, <1>4, <1>5, <1>6, Leaves

LEMMA StepStoreAnswer ==
    ASSUME ChatInv, NEW c \in Callers, StoreAnswer(c)
    PROVE  ChatInv'
<1> DEFINE q == request[c]  t == Turn("assistant", q.of, q.read)
<1>1. /\ q.at = "citing" /\ turns' = Append(turns, t) /\ request' = [request EXCEPT ![c] = Unasked]
      /\ UNCHANGED <<service, services, memory, asked, odd>>
  BY DEF StoreAnswer
<1>2. q.read \in {0, 2}
  BY <1>1, HereIs DEF RequestInv
<1>3. t \in Turns /\ t.of = q.of /\ q.at # "idle"
  BY <1>1, <1>2, AnswerIs
<1>4. ASSUME q.of \notin odd', Remembers PROVE Agree(memory'[service], turns', NotOdd)
  BY <1>1, <1>3, <1>4, AloneAgrees
<1> QED BY <1>1, <1>3, <1>4, Leaves

LEMMA StepRequestFails ==
    ASSUME ChatInv, NEW c \in Callers, RequestFails(c)
    PROVE  ChatInv'
<1> DEFINE q == request[c]
<1>1. /\ q.at \in {"retrieving", "generating"} /\ request' = [request EXCEPT ![c] = Unasked]
      /\ odd' = odd \cup (IF q.at = "retrieving" THEN {q.of} ELSE {})
      /\ UNCHANGED <<turns, service, services, memory, asked>>
  BY DEF RequestFails
<1>2. ASSUME q.of \notin odd', Remembers PROVE Agree(memory'[service], turns', NotOdd)
  BY <1>1, <1>2, AloneAgrees
<1>3. q.at # "idle" /\ odd \subseteq odd' /\ odd' \subseteq odd \cup {q.of}
  BY <1>1
<1> QED BY <1>1, <1>2, <1>3, Leaves

LEMMA StepHangsUp ==
    ASSUME ChatInv, NEW c \in Callers, HangsUp(c)
    PROVE  ChatInv'
<1> DEFINE q == request[c]
<1>1. /\ q.streams /\ request' = [request EXCEPT ![c] = Unasked]
      /\ odd' = odd \cup (IF q.service # 0 /\ q.at # "generating" THEN {q.of} ELSE {})
      /\ UNCHANGED <<turns, service, services, memory, asked>>
  BY DEF HangsUp
<1>2. q.at # "idle"
  BY <1>1, HereIs, UnaskedIs DEF RequestInv
<1>3. ASSUME q.of \notin odd', Remembers PROVE Agree(memory'[service], turns', NotOdd)
  <2>1. q.of \notin odd /\ (q.service = 0 \/ q.at = "generating")
    BY <1>1, <1>3
  <2>2. q.service = service /\ service # 0
    BY <1>2, <1>3, <2>1, AloneAgrees
  <2> QED BY <1>1, <1>2, <1>3, <2>1, <2>2, AloneAgrees
<1>4. odd \subseteq odd' /\ odd' \subseteq odd \cup {q.of}
  BY <1>1
<1> QED BY <1>1, <1>2, <1>3, <1>4, Leaves

Given(r, t) == [memory EXCEPT ![r] = Add(memory[r], t)]

\* A request goes on; the memory may get one of its turns.
LEMMA Stays ==
    ASSUME ChatInv, NEW c \in Callers, NEW q \in RequestStates,
           request[c].at # "idle", q.at # "idle", q.of = request[c].of,
           request' = [request EXCEPT ![c] = q], UNCHANGED <<turns, service, services, asked, odd>>,
           \/ memory' = memory
           \/ \E r \in 1..services, t \in Turns :
                 /\ t.of = q.of
                 /\ r = service /\ ~ memory[r].begun => \A i \in 1..Len(turns) : turns[i].of \in Unsure
                 /\ memory' = Given(r, t)
    PROVE  Moves(c, q) /\ InStepInv' /\ Unsure' = Unsure
<1> USE ConversationsAssumption
<1>1. /\ q.of \in 1..asked /\ q.of \in InFlight
      /\ asked \in 0..MaxQuestions /\ services \in 0..MaxServices /\ service \in 0..services
      /\ memory \in [1..MaxServices -> MemoryStates] /\ turns \in Seq(Turns)
  BY HereIs
<1>2. InFlight' = InFlight
  BY FlightIs DEF ChatInv
<1>3. Unsure' = Unsure /\ InStep' = InStep
  BY <1>2 DEF Unsure, InStep
<1>4. \A r \in 1..services : MemoryInv(memory[r]) /\ memory[r].live \in Seq(Until(asked))
  BY InvIs
<1>5. \/ memory' = memory
      \/ \E r \in 1..services, m \in MemoryStates :
                                   /\ MemoryInv(m) /\ m.live \in Seq(Until(asked'))
                                   /\ memory[r].begun => m.begun
                                   /\ memory' = [memory EXCEPT ![r] = m]
  <2> SUFFICES ASSUME NEW r \in 1..services, NEW t \in Turns, t.of = q.of,
                      memory' = [memory EXCEPT ![r] = Add(memory[r], t)]
               PROVE  /\ MemoryInv(Add(memory[r], t)) /\ Add(memory[r], t).live \in Seq(Until(asked'))
                      /\ Add(memory[r], t).begun
    BY DEF Given, MemoryInv
  <2>1. t \in Until(asked)
    BY <1>1 DEF Until
  <2> QED BY <1>4, <2>1, AddIs, AddIn
<1>6. Moves(c, q)
  <2>1. asked' \in asked..MaxQuestions /\ odd \subseteq odd' /\ odd' \subseteq 1..asked'
    BY <1>1 DEF ChatInv, ChatTypes
  <2> QED BY <1>3, <1>5, <2>1 DEF Moves
<1>7. InStepInv'
  <2> SUFFICES ASSUME service # 0, memory'[service].begun PROVE Agree(memory'[service], turns, InStep)
    BY <1>3 DEF InStepInv, Remembers
  <2>1. service \in 1..MaxServices /\ service \in 1..services /\ MemoryInv(memory[service])
    BY <1>1, <1>4
  <2>2. memory[service].begun => Agree(memory[service], turns, InStep)
    BY DEF Remembers, ChatInv, InStepInv
  <2>3. CASE memory'[service] = memory[service]
    BY <2>2, <2>3
  <2>4. CASE memory'[service] # memory[service]
    <3>1. PICK r \in 1..services, t \in Turns :
             /\ t.of = q.of
             /\ r = service /\ ~ memory[r].begun => \A i \in 1..Len(turns) : turns[i].of \in Unsure
             /\ memory' = [memory EXCEPT ![r] = Add(memory[r], t)]
      BY <2>4 DEF Given
    <3>2. r = service /\ memory'[service] = Add(memory[service], t)
      BY <1>1, <2>1, <2>4, <3>1
    <3>3. Agree(memory[service], turns, InStep)
      <4>1. CASE memory[service].begun
        BY <2>2, <4>1
      <4>2. CASE ~ memory[service].begun
        <5>1. memory[service] = Nobody
          BY <2>1, <4>2 DEF MemoryInv
        <5>2. \A i \in 1..Len(turns) : turns[i].of \in Unsure
          BY <3>1, <3>2, <4>2
        <5>3. Agree(Nobody, turns, InStep)
          <6>1. \A i \in 1..Len(turns) : turns[i] \notin InStep
            BY <5>2 DEF InStep, Unsure
          <6> QED BY <1>1, <6>1, NothingInStep
        <5> QED BY <5>1, <5>3
      <4> QED BY <4>1, <4>2
    <3>4. t \notin InStep
      BY <1>1, <3>1 DEF InStep
    <3>5. Agree(Add(memory[service], t), turns, InStep)
      BY <1>1, <2>1, <3>3, <3>4, AgreeAside
    <3> QED BY <3>2, <3>5
  <2> QED BY <2>3, <2>4
<1> QED BY <1>3, <1>6, <1>7

LEMMA StepBuildPrompt ==
    ASSUME ChatInv, NEW c \in Callers, BuildPrompt(c)
    PROVE  ChatInv'
<1> DEFINE p == request[c]  l == History(memory[p.service])
           q == [p EXCEPT !.at = "retrieving", !.prompt = l]
<1>1. /\ p.at = "seeded" /\ request' = [request EXCEPT ![c].at = "retrieving", ![c].prompt = l]
      /\ UNCHANGED <<turns, service, services, memory, asked, odd>>
  BY DEF BuildPrompt
<1>2. p \in RequestStates /\ RequestInv(c) /\ p.service # 0 /\ p.streams
      /\ MemoryInv(memory[p.service]) /\ memory[p.service].live \in Seq(Until(asked))
  BY <1>1, HereIs DEF RequestInv
<1>3. l \in Seq(Turns) /\ \A A : memory[p.service].live \in Seq(A) => l \in Seq(A)
  BY <1>2, HistoryIs
<1> HIDE DEF l
<1>4. /\ q \in RequestStates /\ q.at = "retrieving" /\ q.of = p.of /\ q.service = p.service /\ q.prompt = l
      /\ q.read = p.read
  BY <1>2, <1>3 DEF RequestStates, ChatStages
<1>5. request' = [request EXCEPT ![c] = q] /\ request'[c] = q
  BY <1>1 DEF ChatInv, ChatTypes
<1> HIDE DEF q
<1>6. Moves(c, q) /\ InStepInv' /\ Unsure' = Unsure
  BY <1>1, <1>4, <1>5, Stays
<1>7. p.of \notin odd => AloneInv(c) /\ l \in Seq(Others(p.of))
  <2> SUFFICES ASSUME p.of \notin odd PROVE AloneInv(c) /\ l \in Seq(Others(p.of))
    OBVIOUS
  <2>1. AloneInv(c)
    BY <1>1, HereIs
  <2>2. memory[p.service].live \in Seq(Others(p.of))
    BY <1>1, <1>2, <2>1 DEF AloneInv
  <2> QED BY <1>3, <2>1, <2>2
<1>8. RequestInv(c)'
  BY <1>1, <1>2, <1>4, <1>5, <1>6, <1>7 DEF RequestInv
<1>9. ASSUME q.of \notin odd' PROVE AloneInv(c)'
  <2>1. AloneInv(c)
    BY <1>1, <1>4, <1>7, <1>9
  <2>2. Lonely(c)'
    BY <1>4, <1>5, <2>1, FlightIs DEF ChatInv, AloneInv
  <2>3. Remembers' = Remembers
    BY <1>1 DEF Remembers
  <2> QED BY <1>1, <1>4, <1>5, <2>1, <2>2, <2>3 DEF AloneInv
<1> QED BY <1>6, <1>8, <1>9, MoveIs

BecomesAt(p, a, l) == [p EXCEPT !.at = a, !.prompt = l]
BecomesRead(p, a, k) == [p EXCEPT !.at = a, !.read = k]

LEMMA BecomesAtIs ==
    ASSUME NEW p \in RequestStates, NEW a \in ChatStages, NEW l \in Seq(Turns)
    PROVE  LET q == BecomesAt(p, a, l)
           IN  /\ q \in RequestStates /\ q.at = a /\ q.of = p.of /\ q.streams = p.streams
               /\ q.service = p.service /\ q.read = p.read /\ q.prompt = l
<1>1. PICK y : y = [p EXCEPT !.at = a, !.prompt = l]
  OBVIOUS
<1>2. y = [at |-> a, of |-> p.of, streams |-> p.streams, service |-> p.service, read |-> p.read, prompt |-> l]
  BY <1>1 DEF RequestStates
<1> QED BY <1>1, <1>2 DEF RequestStates, BecomesAt

LEMMA BecomesReadIs ==
    ASSUME NEW p \in RequestStates, NEW a \in ChatStages, NEW k \in Nat
    PROVE  LET q == BecomesRead(p, a, k)
           IN  /\ q \in RequestStates /\ q.at = a /\ q.of = p.of /\ q.streams = p.streams
               /\ q.service = p.service /\ q.read = k /\ q.prompt = p.prompt
<1>1. PICK y : y = [p EXCEPT !.at = a, !.read = k]
  OBVIOUS
<1>2. y = [at |-> a, of |-> p.of, streams |-> p.streams, service |-> p.service, read |-> k, prompt |-> p.prompt]
  BY <1>1 DEF RequestStates
<1> QED BY <1>1, <1>2 DEF RequestStates, BecomesRead

LEMMA StaysAdding ==
    ASSUME ChatInv, NEW c \in Callers, NEW q \in RequestStates,
           request[c].at # "idle", q.at # "idle", q.of = request[c].of,
           request' = [request EXCEPT ![c] = q], UNCHANGED <<turns, service, services, asked, odd>>,
           NEW r \in 1..services, NEW t \in Turns, t.of = q.of,
           r = service /\ ~ memory[r].begun => \A i \in 1..Len(turns) : turns[i].of \in Unsure,
           memory' = Given(r, t)
    PROVE  Moves(c, q) /\ InStepInv' /\ Unsure' = Unsure
BY Stays

LEMMA StepRetrieved ==
    ASSUME ChatInv, NEW c \in Callers, Retrieved(c)
    PROVE  ChatInv'
<1> DEFINE p == request[c]  q == BecomesAt(p, "generating", <<>>)
           t == Turn("user", p.of, 1)
<1>1. /\ p.at = "retrieving" /\ request' = [request EXCEPT ![c].at = "generating", ![c].prompt = <<>>]
      /\ memory' = [memory EXCEPT ![p.service] = Add(memory[p.service], t)]
      /\ UNCHANGED <<turns, service, services, asked, odd>>
  BY DEF Retrieved
<1>2. p \in RequestStates /\ RequestInv(c) /\ p.service \in 1..services /\ p.of \in 1..MaxQuestions
      /\ p.service \in 1..MaxServices /\ MemoryInv(memory[p.service])
      /\ memory \in [1..MaxServices -> MemoryStates] /\ turns \in Seq(Turns)
  BY <1>1, HereIs DEF RequestInv
<1>3. t \in Turns /\ t.of = p.of
  BY <1>2, TurnTypes DEF Said
<1> HIDE DEF t
<1>4. /\ q \in RequestStates /\ q.at = "generating" /\ q.of = p.of /\ q.service = p.service /\ q.prompt = <<>>
      /\ q.read = p.read
  <2> DEFINE x == request[c]  a == "generating"  l == <<>>
  <2>1. a \in ChatStages /\ l \in Seq(Turns)
    BY DEF ChatStages
  <2>2. x \in RequestStates
    BY <1>2
  <2> HIDE DEF x, a, l
  <2>3. LET y == BecomesAt(x, a, l)
        IN  /\ y \in RequestStates /\ y.at = a /\ y.of = x.of /\ y.streams = x.streams
            /\ y.service = x.service /\ y.read = x.read /\ y.prompt = l
    BY <2>1, <2>2, BecomesAtIs, Zenon
  <2> QED BY <2>3, Zenon DEF x, a, l
<1>5. request' = [request EXCEPT ![c] = q] /\ request'[c] = q
  BY <1>1 DEF ChatInv, ChatTypes, BecomesAt, BecomesRead
<1> HIDE DEF q
<1>6. p.service = service /\ ~ memory[p.service].begun => \A i \in 1..Len(turns) : turns[i].of \in Unsure
  BY <1>1, <1>2 DEF RequestInv
<1>7. Moves(c, q) /\ InStepInv' /\ Unsure' = Unsure
  <2>1. p.service = service /\ ~ memory[p.service].begun => \A i \in 1..Len(turns) : turns[i].of \in Unsure
    BY <1>6
  <2>2. memory' = Given(p.service, t)
    BY <1>1 DEF Given
  <2> DEFINE r == p.service
  <2>3. r \in 1..services /\ p.at # "idle" /\ q \in RequestStates /\ q.at # "idle" /\ q.of = p.of /\ t.of = q.of
    BY <1>1, <1>2, <1>3, <1>4
  <2>4. r = service /\ ~ memory[r].begun => \A i \in 1..Len(turns) : turns[i].of \in Unsure
    BY <2>1
  <2>5. memory' = Given(r, t) /\ UNCHANGED <<turns, service, services, asked, odd>>
    BY <1>1, <2>2
  <2> HIDE DEF r
  <2> QED BY <1>3, <1>5, <2>3, <2>4, <2>5, StaysAdding
<1>8. memory'[p.service] = Add(memory[p.service], t)
      /\ \A r \in 1..MaxServices : r # p.service => memory'[r] = memory[r]
  BY <1>1, <1>2
<1>9. RequestInv(c)'
  <2>1. memory'[q.service].begun
    BY <1>2, <1>3, <1>4, <1>8, AddIs
  <2>2. q.of \in 1..asked /\ q.service <= services /\ q.prompt \in Seq(Others(q.of))
    BY <1>1, <1>2, <1>4 DEF RequestInv
  <2> QED BY <1>1, <1>4, <1>5, <2>1, <2>2 DEF RequestInv
<1>10. ASSUME q.of \notin odd' PROVE AloneInv(c)'
  <2>1. AloneInv(c) /\ p.of \notin odd
    BY <1>1, <1>4, <1>10, HereIs
  <2>2. Lonely(c)' /\ InFlight = {p.of}
    <3>1. Lonely(c) /\ p.of \in InFlight
      BY <1>1, <2>1, HereIs DEF AloneInv
    <3>2. Lonely(c)' /\ InFlight \subseteq {p.of}
      BY <1>4, <1>5, <3>1, FlightIs DEF ChatInv
    <3> QED BY <3>1, <3>2
  <2>3. q.service # service => ~ Remembers'
    <3> SUFFICES ASSUME q.service # service, service # 0, memory'[service].begun PROVE FALSE
      BY <1>1 DEF Remembers
    <3>1. service \in 1..MaxServices /\ memory'[service] = memory[service]
      BY <1>4, <1>8, InvIs
    <3> QED BY <1>4, <2>1, <3>1 DEF AloneInv, Remembers
  <2>4. ASSUME q.service = service PROVE Agree(memory'[service], turns, NotOdd)
    <3>0. service = p.service
      BY <1>4, <2>4
    <3> DEFINE m == memory[service]  O == Others(p.of)
    <3>1. PICK before \in Seq(O) : turns = Append(before, t)
      BY <1>1, <2>1 DEF AloneInv, t
    <3>2. m.live \in Seq(O) /\ MemoryInv(m) /\ O \subseteq Turns
      BY <1>1, <1>2, <2>1, <3>0, UntilIs DEF AloneInv
    <3> HIDE DEF O
    <3>3. before \in Seq(Turns)
      BY <3>2, ListIsIn
    <3>4. Agree(m, turns, InStep)
      <4>1. CASE m.begun
        BY <1>2, <3>0, <4>1 DEF ChatInv, InStepInv, Remembers
      <4>2. CASE ~ m.begun
        <5>1. m = Nobody
          BY <3>2, <4>2 DEF MemoryInv
        <5>2. \A i \in 1..Len(turns) : turns[i] \notin InStep
          BY <1>6, <3>0, <4>2 DEF InStep, Unsure
        <5> QED BY <1>2, <5>1, <5>2, NothingInStep
      <4> QED BY <4>1, <4>2
    <3>5. t \notin InStep
      BY <1>3, <2>2 DEF InStep
    <3>6. Agree(m, before, InStep)
      BY <1>3, <3>1, <3>3, <3>4, <3>5, AgreeSkip
    <3>7. O \cap InStep = O \cap NotOdd
      BY <2>2 DEF O, Others, InStep, NotOdd
    <3>8. Agree(m, before, NotOdd)
      BY <3>2, <3>6, <3>7, AgreeSame
    <3>9. Agree(Add(m, t), Append(before, t), NotOdd)
      BY <1>3, <3>2, <3>3, <3>8, AgreeAdd
    <3> QED BY <1>8, <3>0, <3>1, <3>9
  <2>5. NotOdd' = NotOdd
    BY <1>1 DEF NotOdd
  <2> QED BY <1>1, <1>4, <1>5, <2>1, <2>2, <2>3, <2>4, <2>5 DEF AloneInv
<1> QED BY <1>7, <1>9, <1>10, MoveIs

LEMMA StepAnswerStream ==
    ASSUME ChatInv, NEW c \in Callers, AnswerStream(c)
    PROVE  ChatInv'
<1> DEFINE p == request[c]
<1>1. PICK k \in {0, 2} :
         /\ p.at = "generating" /\ p.service # 0 /\ p.streams
         /\ memory' = Remembered(c, Turn("assistant", p.of, k))
         /\ request' = [request EXCEPT ![c].at = "citing", ![c].read = k]
         /\ UNCHANGED <<turns, service, services, asked, odd>>
  BY DEF AnswerStream
<1> DEFINE q == BecomesRead(p, "citing", k)  t == Turn("assistant", p.of, k)
<1>2. memory' = [memory EXCEPT ![p.service] = Add(memory[p.service], t)]
  BY <1>1 DEF Remembered
<1>3. t \in Turns /\ t.of = p.of
  BY <1>1, AnswerIs
<1> HIDE DEF t
<1>4. p \in RequestStates /\ RequestInv(c) /\ p.service \in 1..services /\ p.of \in 1..MaxQuestions
      /\ p.service \in 1..MaxServices /\ MemoryInv(memory[p.service]) /\ memory[p.service].begun
      /\ memory \in [1..MaxServices -> MemoryStates] /\ turns \in Seq(Turns)
  BY <1>1, HereIs DEF RequestInv
<1>5. /\ q \in RequestStates /\ q.at = "citing" /\ q.of = p.of /\ q.service = p.service /\ q.prompt = p.prompt
      /\ q.read = k /\ q.streams
  <2>1. "citing" \in ChatStages /\ k \in Nat
    BY DEF ChatStages
  <2> QED BY <1>1, <1>4, <2>1, BecomesReadIs
<1>6. request' = [request EXCEPT ![c] = q] /\ request'[c] = q
  BY <1>1 DEF ChatInv, ChatTypes, BecomesAt, BecomesRead
<1> HIDE DEF q
<1>7. Moves(c, q) /\ InStepInv' /\ Unsure' = Unsure
  <2>1. p.at # "idle" /\ t.of = q.of
    BY <1>1, <1>3, <1>5
  <2>2. memory' = Given(p.service, t)
    BY <1>2 DEF Given
  <2> DEFINE r == p.service
  <2>3. r \in 1..services /\ p.at # "idle" /\ q \in RequestStates /\ q.at # "idle" /\ q.of = p.of /\ t.of = q.of
    BY <1>4, <1>5, <2>1
  <2>4. r = service /\ ~ memory[r].begun => \A i \in 1..Len(turns) : turns[i].of \in Unsure
    BY <1>4
  <2>5. memory' = Given(r, t) /\ UNCHANGED <<turns, service, services, asked, odd>>
    BY <1>1, <2>2
  <2> HIDE DEF r
  <2> QED BY <1>3, <1>6, <2>3, <2>4, <2>5, StaysAdding
<1>8. memory'[p.service] = Add(memory[p.service], t)
      /\ \A r \in 1..MaxServices : r # p.service => memory'[r] = memory[r]
  BY <1>2, <1>4
<1>9. RequestInv(c)'
  <2>1. memory'[q.service].begun
    BY <1>3, <1>4, <1>5, <1>8, AddIs
  <2>2. q.of \in 1..asked /\ q.service <= services
        /\ (q.of \notin odd => q.prompt \in Seq(Others(q.of)))
    BY <1>1, <1>4, <1>5 DEF RequestInv
  <2> QED BY <1>1, <1>5, <1>6, <2>1, <2>2 DEF RequestInv
<1>10. ASSUME q.of \notin odd' PROVE AloneInv(c)'
  <2>1. AloneInv(c) /\ p.of \notin odd
    BY <1>1, <1>5, <1>10, HereIs
  <2>2. Lonely(c)'
    BY <1>5, <1>6, <2>1, FlightIs DEF ChatInv, AloneInv
  <2>3. q.service # service => ~ Remembers'
    <3> SUFFICES ASSUME q.service # service, service # 0, memory'[service].begun PROVE FALSE
      BY <1>1 DEF Remembers
    <3>1. service \in 1..MaxServices /\ memory'[service] = memory[service]
      BY <1>5, <1>8, InvIs
    <3> QED BY <1>5, <2>1, <3>1 DEF AloneInv, Remembers
  <2>4. ASSUME q.service = service PROVE Agree(memory'[service], Append(turns, t), NotOdd)
    <3>1. service = p.service /\ service # 0
      BY <1>1, <1>5, <2>4
    <3>2. Agree(memory[service], turns, NotOdd)
      BY <1>1, <2>1, <3>1 DEF AloneInv
    <3>3. Agree(Add(memory[service], t), Append(turns, t), NotOdd)
      BY <1>3, <1>4, <3>1, <3>2, AgreeAdd
    <3> QED BY <1>8, <3>1, <3>3
  <2>5. NotOdd' = NotOdd /\ t = Turn("assistant", q.of, q.read)
    BY <1>1, <1>5 DEF NotOdd, t
  <2> QED BY <1>1, <1>5, <1>6, <2>1, <2>2, <2>3, <2>4, <2>5 DEF AloneInv
<1> QED BY <1>7, <1>9, <1>10, MoveIs

Holding(s, m) == [memory EXCEPT ![s] = m]

\* A question is asked, in a memory that may be filled now.
LEMMA Asks ==
    ASSUME ChatInv, NEW c \in Callers, NEW q \in RequestStates, NEW m, NEW extra,
           request[c].at = "idle", asked < MaxQuestions, asked' = asked + 1,
           turns' = Append(turns, Turn("user", asked + 1, 1)),
           request' = [request EXCEPT ![c] = q], UNCHANGED <<service, services>>,
           q.of = asked + 1, q.service = service, q.prompt \in Seq(Until(asked)),
           odd' = odd \cup extra \cup (IF Undisturbed THEN {} ELSE {asked + 1} \cup InFlight),
           extra \subseteq 1..asked,
           service = 0 => memory' = memory,
           service # 0 => /\ memory' = Holding(service, m)
                          /\ MemoryInv(m) /\ m.live \in Seq(Until(asked)) /\ (memory[service].begun => m.begun)
                          /\ m.begun => Agree(m, turns, InStep'),
           \/ q.at = "told" /\ q.streams /\ q.read = TurnsRead
           \/ /\ q.at = "retrieving" /\ service # 0
              /\ ~ m.begun => \A i \in 1..Len(turns) : turns[i].of \in Unsure'
           \/ q.at = "generating" /\ service = 0
    PROVE  ChatInv'
<1> USE ConversationsAssumption
<1> DEFINE n == asked + 1  t == Turn("user", n, 1)
<1>1. /\ asked \in 0..MaxQuestions /\ services \in 0..MaxServices /\ service \in 0..services
      /\ memory \in [1..MaxServices -> MemoryStates] /\ turns \in Seq(Turns) /\ n \in 1..MaxQuestions
      /\ turns \in Seq(Until(asked)) /\ odd \subseteq 1..asked /\ asked \in Nat
      /\ OldestTurns \in Nat
  BY HereIs DEF ChatInv, ChatTypes
<1>2. t \in Turns /\ t \in Until(n) /\ t.of = n
  BY <1>1, TurnTypes DEF Until
<1>3. Until(asked) \subseteq Until(n) /\ Until(asked) \subseteq Others(n)
  BY <1>1, UntilIs
<1> HIDE DEF t
<1>4. /\ turns \in Seq(Others(n)) /\ q.prompt \in Seq(Others(n))
      /\ \A l : l \in Seq(Until(asked)) => l \in Seq(Until(n)) /\ l \in Seq(Others(n))
  BY <1>1, <1>3, ListIsIn
<1>5. q.at # "idle" /\ request'[c] = q /\ turns' = Append(turns, t)
  BY DEF ChatInv, ChatTypes, t
<1>6. InFlight \subseteq InFlight' /\ n \in InFlight' /\ InFlight' \subseteq InFlight \cup {n}
  <2>1. ChatTypes
    BY DEF ChatInv
  <2>2. /\ InFlight' \subseteq InFlight \cup {q.of}
        /\ q.at # "idle" => q.of \in InFlight'
        /\ request[c].at = "idle" => InFlight \subseteq InFlight'
    BY <2>1, FlightIs
  <2> QED BY <1>5, <2>2
<1>7. Unsure \subseteq Unsure' /\ n \in Unsure' /\ odd \subseteq odd'
  BY <1>6 DEF Unsure
<1>8. InFlight \subseteq 1..asked
  <2>1. \A d \in Callers : request[d].at # "idle" => request[d].of \in 1..asked
    BY HereIs
  <2> QED BY <2>1 DEF InFlight
<1>9. odd' \subseteq 1..asked' /\ InFlight \subseteq odd'
  <2>1. 1..asked \subseteq 1..asked' /\ n \in 1..asked'
    BY <1>1
  <2>2. odd' \subseteq 1..asked'
    BY <1>1, <1>8, <2>1
  <2>3. InFlight \subseteq odd'
    BY DEF Undisturbed
  <2> QED BY <2>2, <2>3
<1>10. n \notin odd' => InFlight = {}
  BY DEF Undisturbed
<1>11. service # 0 => service \in 1..services /\ service \in 1..MaxServices /\ MemoryInv(memory[service])
  BY <1>1, InvIs
<1>12. Moves(c, q)
  <2>1. asked' \in asked..MaxQuestions
    BY <1>1
  <2>2. \E u \in Until(asked') : turns' = Append(turns, u) /\ u.of \in Unsure'
    BY <1>2, <1>5, <1>7
  <2>3. \/ memory' = memory
        \/ \E r \in 1..services, l \in MemoryStates :
                                     /\ MemoryInv(l) /\ l.live \in Seq(Until(asked'))
                                     /\ memory[r].begun => l.begun
                                     /\ memory' = [memory EXCEPT ![r] = l]
    <3>1. CASE service = 0
      BY <3>1
    <3>2. CASE service # 0
      <4>1. memory' = [memory EXCEPT ![service] = m] /\ MemoryInv(m) /\ (memory[service].begun => m.begun)
        BY <3>2 DEF Holding
      <4>2. m.live \in Seq(Until(asked'))
        BY <1>4, <3>2
      <4> QED BY <1>11, <3>2, <4>1, <4>2 DEF MemoryInv
    <3> QED BY <3>1, <3>2
  <2> QED BY <1>7, <1>9, <2>1, <2>2, <2>3 DEF Moves
<1>13. service # 0 => memory'[service] = m
  BY <1>1, <1>11 DEF Holding
<1>14. Len(turns') = Len(turns) + 1 /\ (\A i \in 1..Len(turns) : turns'[i] = turns[i]) /\ turns'[Len(turns) + 1] = t
       /\ turns' \in Seq(Turns)
  BY <1>1, <1>2, <1>5
<1>15. RequestInv(c)'
  <2>1. q.of \in 1..asked' /\ q.service <= services' /\ q.prompt \in Seq(Others(q.of))
    BY <1>1, <1>4
  <2>2. q.at = "told" => q.read <= Len(turns') /\ SubSeq(turns', 1, q.read) \in Seq(Others(q.of))
    <3> SUFFICES ASSUME q.at = "told"
                 PROVE  q.read <= Len(turns') /\ SubSeq(turns', 1, q.read) \in Seq(Others(q.of))
      OBVIOUS
    <3>1. q.read = TurnsRead
      OBVIOUS
    <3>2. q.read \in Nat /\ q.read <= Len(turns)
      BY <1>1, <3>1 DEF TurnsRead
    <3>3. SubSeq(turns', 1, q.read) = SubSeq(turns, 1, q.read)
      BY <1>1, <1>14, <3>2
    <3>4. SubSeq(turns, 1, q.read) \in Seq(Others(n))
      BY <1>4, <3>2
    <3>5. q.read <= Len(turns')
      BY <1>1, <1>14, <3>2
    <3> QED BY <3>3, <3>4, <3>5
  <2>3. q.at \in {"seeded", "retrieving"} /\ ~ memory'[service].begun =>
           \A i \in 1..Len(turns') : turns'[i].of \in Unsure'
    <3> SUFFICES ASSUME q.at = "retrieving", ~ memory'[service].begun, NEW i \in 1..Len(turns')
                 PROVE  turns'[i].of \in Unsure'
      OBVIOUS
    <3>1. service # 0 /\ \A j \in 1..Len(turns) : turns[j].of \in Unsure'
      BY <1>13
    <3> QED BY <1>1, <1>2, <1>7, <1>14, <3>1
  <2> QED BY <1>5, <2>1, <2>2, <2>3 DEF RequestInv, Oldest
<1>16. InStepInv'
  <2> SUFFICES ASSUME service # 0, memory'[service].begun PROVE Agree(memory'[service], turns', InStep')
    BY DEF InStepInv, Remembers
  <2>1. Agree(m, turns, InStep') /\ memory'[service] = m
    BY <1>13
  <2>2. t \notin InStep'
    BY <1>2, <1>7 DEF InStep, Unsure
  <2>3. Agree(m, Append(turns, t), InStep') <=> Agree(m, turns, InStep')
    BY <1>1, <1>2, <2>2, AgreeSkip
  <2> QED BY <1>5, <2>1, <2>3
<1>17. ASSUME q.of \notin odd' PROVE AloneInv(c)'
  <2>1. InFlight = {}
    BY <1>10, <1>17
  <2>2. Lonely(c)'
    <3>1. \A d \in Callers : request[d].at = "idle"
      BY <2>1 DEF InFlight
    <3>2. \A d \in Callers : d # c => request'[d] = request[d]
      BY DEF ChatInv, ChatTypes
    <3> QED BY <3>1, <3>2 DEF Lonely
  <2>3. q.service # 0 => memory'[q.service].live \in Seq(Others(q.of))
    BY <1>4, <1>13
  <2>4. \E before \in Seq(Others(q.of)) : turns' = Append(before, Turn("user", q.of, 1))
    BY <1>4
  <2>5. q.at # "citing" /\ (q.at = "generating" => service = 0)
    OBVIOUS
  <2> QED BY <1>5, <2>2, <2>3, <2>4, <2>5 DEF AloneInv
<1> QED BY <1>12, <1>15, <1>16, <1>17, MoveIs

LEMMA OldestIs ==
    ASSUME ChatInv, NEW k \in 0..Len(turns)
    PROVE  /\ Oldest(k) = SubSeq(turns, 1, k) /\ Oldest(k) \in Seq(Until(asked)) /\ Oldest(k) \in Seq(Turns)
           /\ \A s : Overlooked(s, k) \subseteq 1..asked
<1>1. turns \in Seq(Until(asked)) /\ turns \in Seq(Turns) /\ asked \in Nat
  BY InvIs DEF ChatInv, ChatTypes
<1>2. SubSeq(turns, 1, k) \in Seq(Until(asked)) /\ SubSeq(turns, 1, k) \in Seq(Turns)
  BY <1>1
<1>3. ASSUME NEW i \in k + 1..Len(turns) PROVE turns[i].of \in 1..asked
  <2>1. i \in 1..Len(turns)
    OBVIOUS
  <2>2. turns[i] \in Until(asked)
    BY <1>1, <2>1
  <2> QED BY <1>1, <2>2, TurnTypes, ConversationsAssumption DEF Until
<1> QED BY <1>2, <1>3 DEF Oldest, Overlooked

LEMMA TurnsReadIs ==
    ASSUME ChatInv
    PROVE  TurnsRead \in 0..Len(turns)
BY InvIs, ConversationsAssumption DEF TurnsRead

\* A memory that is filled with the first k rows agrees with them all, but for
\* those it is not given.
LEMMA SeedAgrees ==
    ASSUME ChatInv, NEW r \in 1..services, NEW k \in 0..Len(turns), NEW V,
           \A i \in 1..Len(turns) : turns[i].of \in Overlooked(r, k) => turns[i] \notin V,
           memory[r].begun => Agree(memory[r], turns, V)
    PROVE  LET m == Seeded(memory[r], Oldest(k))
           IN  /\ MemoryInv(m) /\ m.live \in Seq(Until(asked)) /\ Agree(m, turns, V)
               /\ m.begun <=> memory[r].begun \/ k # 0
<1> DEFINE o == memory[r]  m == Seeded(o, SubSeq(turns, 1, k))
<1>1. MemoryInv(o) /\ o.live \in Seq(Until(asked)) /\ turns \in Seq(Turns) /\ Until(asked) \subseteq Turns
  BY InvIs, UntilIs
<1>2. SubSeq(turns, 1, k) \in Seq(Until(asked)) /\ Oldest(k) = SubSeq(turns, 1, k)
  BY OldestIs
<1>3. ~ o.begun => \A i \in k + 1..Len(turns) : turns[i] \notin V
  <2> SUFFICES ASSUME ~ o.begun, NEW i \in k + 1..Len(turns) PROVE turns[i] \notin V
    OBVIOUS
  <2>1. i \in 1..Len(turns) /\ turns[i].of \in Overlooked(r, k)
    BY <1>1 DEF Overlooked
  <2> QED BY <2>1
<1>4. /\ MemoryInv(m) /\ m.live \in Seq(Until(asked)) /\ (m.begun <=> o.begun \/ k # 0)
      /\ (IF o.begun THEN Agree(o, turns, V) ELSE \A i \in k + 1..Len(turns) : turns[i] \notin V)
         => Agree(m, turns, V)
  <2> HIDE DEF o
  <2> QED BY <1>1, <1>2, SeededIs
<1> HIDE DEF m
<1>5. Agree(m, turns, V)
  BY <1>3, <1>4
<1> QED BY <1>2, <1>4, <1>5 DEF m

LEMMA AgreeNone ==
    ASSUME NEW m, MemoryInv(m), NEW s \in Seq(Turns)
    PROVE  Agree(m, s, {})
<1>1. m.live \in Seq(Turns)
  BY DEF MemoryInv, MemoryStates
<1>2. Turns \cap {} = {} /\ Turns \cap ({} \cap Said) = {}
  OBVIOUS
<1>3. Among(m.live, {}) = <<>> /\ Among(s, {} \cap Said) = <<>>
  BY <1>1, <1>2, AmongNone
<1>4. IsSuffix(<<>>, <<>>)
  <2>1. <<>> \in Seq(Turns)
    OBVIOUS
  <2> QED BY <2>1, SuffixSelf
<1> QED BY <1>3, <1>4 DEF Agree

LEMMA StepAskStream ==
    ASSUME ChatInv, NEW c \in Callers, AskStream(c)
    PROVE  ChatInv'
<1> USE ConversationsAssumption
<1> DEFINE n == asked + 1
           q == [Unasked EXCEPT !.at = "told", !.of = n, !.streams = TRUE, !.service = service, !.read = TurnsRead]
           m == memory[service]
<1>1. /\ request[c].at = "idle" /\ asked < MaxQuestions /\ asked' = n
      /\ turns' = Append(turns, Turn("user", n, 1))
      /\ request' = [request EXCEPT ![c] = q]
      /\ odd' = odd \cup (IF Undisturbed THEN {} ELSE {n} \cup InFlight)
      /\ UNCHANGED <<service, services, memory>>
  BY DEF AskStream
<1>2. asked \in 0..MaxQuestions /\ services \in 0..MaxServices /\ service \in 0..services
      /\ memory \in [1..MaxServices -> MemoryStates] /\ TurnsRead \in Nat /\ turns \in Seq(Turns)
  BY HereIs, TurnsReadIs
<1>3. q = [at |-> "told", of |-> n, streams |-> TRUE, service |-> service, read |-> TurnsRead, prompt |-> <<>>]
  <2>1. PICK y : y = q
    OBVIOUS
  <2>2. y = [at |-> "told", of |-> n, streams |-> TRUE, service |-> service, read |-> TurnsRead, prompt |-> <<>>]
    BY <2>1 DEF Unasked
  <2> QED BY <2>1, <2>2
<1> HIDE DEF q
<1>4. /\ q \in RequestStates /\ q.at = "told" /\ q.of = n /\ q.streams /\ q.service = service
      /\ q.read = TurnsRead /\ q.prompt = <<>>
  <2>1. n \in 0..MaxQuestions /\ service \in 0..MaxServices /\ "told" \in ChatStages /\ <<>> \in Seq(Turns)
    BY <1>1, <1>2 DEF ChatStages
  <2> QED BY <1>2, <1>3, <2>1 DEF RequestStates
<1> DEFINE extra == {}
<1>5. q.prompt \in Seq(Until(asked)) /\ extra \subseteq 1..asked
  BY <1>4
<1>6. odd' = odd \cup extra \cup (IF Undisturbed THEN {} ELSE {n} \cup InFlight)
  BY <1>1
<1>7. ASSUME service # 0
      PROVE  /\ memory' = Holding(service, m) /\ MemoryInv(m) /\ m.live \in Seq(Until(asked))
             /\ m.begun => Agree(m, turns, InStep')
  <2>1. service \in 1..services /\ MemoryInv(m) /\ m.live \in Seq(Until(asked))
    BY <1>2, <1>7, InvIs
  <2>2. memory' = Holding(service, m)
    BY <1>1, <1>2, <2>1 DEF Holding
  <2>3. ASSUME m.begun PROVE Agree(m, turns, InStep')
    <3>1. Agree(m, turns, InStep)
      BY <1>7, <2>3 DEF ChatInv, InStepInv, Remembers
    <3>2. InFlight \subseteq InFlight'
      BY <1>1, <1>4, FlightIs DEF ChatInv
    <3>3. InStep' \subseteq InStep
      BY <1>1, <3>2 DEF InStep
    <3> QED BY <1>2, <2>1, <3>1, <3>3, AgreeLess
  <2> QED BY <2>1, <2>2, <2>3
<1> HIDE DEF m, extra
<1>8. service # 0 /\ memory[service].begun => m.begun
  BY DEF m
<1> QED BY <1>1, <1>4, <1>5, <1>6, <1>7, <1>8, Asks

LEMMA StepAskWhole ==
    ASSUME ChatInv, NEW c \in Callers, AskWhole(c)
    PROVE  ChatInv'
<1> USE ConversationsAssumption
<1> DEFINE n == asked + 1  k == TurnsRead  m == Seeded(memory[service], Oldest(k))
           extra == IF service = 0 THEN {} ELSE Overlooked(service, k)
           stage == IF service = 0 THEN "generating" ELSE "retrieving"
           l == IF service = 0 THEN Oldest(k) ELSE History(m)
           q == [at |-> stage, of |-> n, streams |-> FALSE, service |-> service, read |-> 0, prompt |-> l]
<1>1. /\ request[c].at = "idle" /\ asked < MaxQuestions /\ asked' = n
      /\ turns' = Append(turns, Turn("user", n, 1))
      /\ service = 0 => memory' = memory
      /\ service # 0 => memory' = Holding(service, m)
      /\ odd' = odd \cup extra \cup (IF Undisturbed THEN {} ELSE {n} \cup InFlight)
      /\ UNCHANGED <<service, services>>
  BY DEF AskWhole, Holding
<1>2. request' = [request EXCEPT ![c] = q]
  <2>1. CASE service = 0
    BY <2>1 DEF AskWhole, Unasked
  <2>2. CASE service # 0
    BY <2>2 DEF AskWhole, Unasked
  <2> QED BY <2>1, <2>2
<1>3. asked \in 0..MaxQuestions /\ services \in 0..MaxServices /\ service \in 0..services /\ asked \in Nat
      /\ k \in 0..Len(turns) /\ turns \in Seq(Turns) /\ Until(asked) \subseteq Turns
  BY InvIs, HereIs, TurnsReadIs, UntilIs
<1>4. Oldest(k) \in Seq(Until(asked)) /\ \A s : Overlooked(s, k) \subseteq 1..asked
  BY <1>3, OldestIs
<1>5. extra \subseteq 1..asked
  BY <1>4
<1>6. InStep' \subseteq InStep
  <2>1. RequestStates # {} /\ request \in [Callers -> RequestStates]
    BY DEF ChatInv, ChatTypes
  <2>2. \A d \in Callers : d # c => request'[d] = request[d]
    BY <1>2, <2>1
  <2>3. InFlight \subseteq InFlight'
    BY <1>1, <2>2 DEF InFlight
  <2>4. odd \subseteq odd'
    BY <1>1
  <2> QED BY <2>3, <2>4 DEF InStep
<1>7. ASSUME service # 0
      PROVE  /\ MemoryInv(m) /\ m.live \in Seq(Until(asked)) /\ (memory[service].begun => m.begun)
             /\ Agree(m, turns, InStep')
             /\ ~ m.begun => k = 0 /\ ~ memory[service].begun
  <2>1. service \in 1..services /\ MemoryInv(memory[service])
    BY <1>3, <1>7, InvIs
  <2>2. memory[service].begun => Agree(memory[service], turns, InStep')
    <3> SUFFICES ASSUME memory[service].begun PROVE Agree(memory[service], turns, InStep')
      OBVIOUS
    <3>1. Agree(memory[service], turns, InStep)
      BY <1>7 DEF ChatInv, InStepInv, Remembers
    <3> QED BY <1>3, <1>6, <2>1, <3>1, AgreeLess
  <2>3. \A i \in 1..Len(turns) : turns[i].of \in Overlooked(service, k) => turns[i] \notin InStep'
    <3>1. Overlooked(service, k) \subseteq odd'
      BY <1>1, <1>7
    <3> QED BY <3>1 DEF InStep
  <2> HIDE DEF k
  <2> QED BY <1>3, <2>1, <2>2, <2>3, SeedAgrees
<1>8. l \in Seq(Until(asked)) /\ l \in Seq(Turns)
  <2>1. CASE service = 0
    <3>1. l = Oldest(k)
      BY <2>1
    <3> QED BY <1>3, <1>4, <3>1, ListIsIn
  <2>2. CASE service # 0
    <3>1. l = History(m)
      BY <2>2
    <3> HIDE DEF m
    <3> QED BY <1>7, <2>2, <3>1, HistoryIs
  <2> QED BY <2>1, <2>2
<1>9. service # 0 /\ ~ m.begun => \A i \in 1..Len(turns) : turns[i].of \in Unsure'
  <2> SUFFICES ASSUME service # 0, ~ m.begun, NEW i \in 1..Len(turns) PROVE turns[i].of \in Unsure'
    OBVIOUS
  <2>1. k = 0 /\ ~ memory[service].begun
    BY <1>7
  <2>2. turns[i].of \in Overlooked(service, k)
    BY <2>1 DEF Overlooked
  <2> QED BY <1>1, <2>2 DEF Unsure
<1> HIDE DEF l, k, m
<1>10. /\ q \in RequestStates /\ q.at = stage /\ q.of = n /\ q.service = service /\ q.prompt = l
  BY <1>1, <1>3, <1>8 DEF RequestStates, ChatStages
<1>11. /\ stage = "retrieving" => service # 0
       /\ stage = "generating" => service = 0
       /\ stage \in {"retrieving", "generating"}
  OBVIOUS
<1> HIDE DEF q, extra, stage
<1>12. \/ q.at = "retrieving" /\ service # 0 /\ (~ m.begun => \A i \in 1..Len(turns) : turns[i].of \in Unsure')
       \/ q.at = "generating" /\ service = 0
  BY <1>9, <1>10, <1>11
<1> QED BY <1>1, <1>2, <1>5, <1>7, <1>8, <1>10, <1>12, Asks

LEMMA StepSeedStream ==
    ASSUME ChatInv, NEW c \in Callers, SeedStream(c)
    PROVE  ChatInv'
<1> USE ConversationsAssumption
<1> DEFINE p == request[c]  r == p.service  k == p.read  m == Seeded(memory[r], Oldest(k))
<1>1. p.at = "told" /\ UNCHANGED <<turns, service, services, asked>>
  BY DEF SeedStream
<1>2. p \in RequestStates /\ RequestInv(c) /\ p.streams /\ p.of \in InFlight /\ p.of \in 1..MaxQuestions
      /\ k \in 0..Len(turns) /\ Oldest(k) \in Seq(Others(p.of)) /\ p.of \in 1..asked /\ r <= services
      /\ asked \in 0..MaxQuestions /\ services \in 0..MaxServices /\ service \in 0..services
      /\ memory \in [1..MaxServices -> MemoryStates] /\ turns \in Seq(Turns) /\ p.prompt \in Seq(Turns)
  <2>1. RequestInv(c) /\ p \in RequestStates
    BY HereIs
  <2>2. k \in Nat /\ k <= Len(turns) /\ Oldest(k) \in Seq(Others(p.of)) /\ p.streams /\ r <= services
        /\ p.prompt \in Seq(Turns)
    BY <1>1, <2>1 DEF RequestInv, RequestStates
  <2>3. turns \in Seq(Turns)
    BY InvIs
  <2>4. k \in 0..Len(turns)
    BY <2>2, <2>3
  <2> QED BY <1>1, <2>1, <2>2, <2>3, <2>4, HereIs
<1>3. CASE r = 0
  <2> DEFINE q == BecomesAt(p, "generating", Oldest(k))
  <2>1. UNCHANGED <<memory, odd>> /\ request' = [request EXCEPT ![c].at = "generating", ![c].prompt = Oldest(k)]
    BY <1>3 DEF SeedStream
  <2>2. Oldest(k) \in Seq(Turns)
    BY <1>2, OldestIs
  <2>3. /\ q \in RequestStates /\ q.at = "generating" /\ q.of = p.of /\ q.streams = p.streams
        /\ q.service = p.service /\ q.read = p.read /\ q.prompt = Oldest(k)
    <3>1. "generating" \in ChatStages /\ request[c] \in RequestStates
      BY <1>2 DEF ChatStages
    <3> QED BY <2>2, <3>1, BecomesAtIs
  <2>4. request' = [request EXCEPT ![c] = q] /\ request'[c] = q
    BY <2>1 DEF ChatInv, ChatTypes, BecomesAt
  <2> HIDE DEF q
  <2>5. Moves(c, q) /\ InStepInv' /\ Unsure' = Unsure
    BY <1>1, <2>1, <2>3, <2>4, Stays
  <2>6. RequestInv(c)'
    BY <1>1, <1>2, <1>3, <2>1, <2>3, <2>4 DEF RequestInv
  <2>7. ASSUME q.of \notin odd' PROVE AloneInv(c)'
    <3>1. AloneInv(c)
      BY <1>1, <2>1, <2>3, <2>7, HereIs
    <3>2. Lonely(c)'
      BY <2>3, <2>4, <3>1, FlightIs DEF ChatInv, AloneInv
    <3>3. Remembers' = Remembers
      BY <1>1, <2>1 DEF Remembers
    <3> QED BY <1>1, <1>3, <2>1, <2>3, <2>4, <3>1, <3>2, <3>3 DEF AloneInv
  <2> QED BY <2>5, <2>6, <2>7, MoveIs
<1>4. CASE r # 0
  <2> DEFINE q == BecomesAt(p, "seeded", p.prompt)
  <2>1. /\ memory' = [memory EXCEPT ![r] = m]
        /\ odd' = odd \cup (Overlooked(r, k) \ {p.of})
        /\ request' = [request EXCEPT ![c].at = "seeded"]
    BY <1>4 DEF SeedStream
  <2>2. /\ q \in RequestStates /\ q.at = "seeded" /\ q.of = p.of /\ q.streams = p.streams
        /\ q.service = p.service /\ q.read = p.read /\ q.prompt = p.prompt
    <3> DEFINE l == p.prompt
    <3>1. "seeded" \in ChatStages /\ request[c] \in RequestStates /\ l \in Seq(Turns)
      BY <1>2 DEF ChatStages
    <3> HIDE DEF l
    <3>2. LET y == BecomesAt(p, "seeded", l)
          IN  /\ y \in RequestStates /\ y.at = "seeded" /\ y.of = p.of /\ y.streams = p.streams
              /\ y.service = p.service /\ y.read = p.read /\ y.prompt = l
      BY <3>1, BecomesAtIs
    <3> QED BY <3>2 DEF l
  <2>3. request' = [request EXCEPT ![c] = q] /\ request'[c] = q
    <3>1. request \in [Callers -> RequestStates]
      BY DEF ChatInv, ChatTypes
    <3>2. q = [p EXCEPT !.at = "seeded"]
      <4>1. PICK y : y = [p EXCEPT !.at = "seeded", !.prompt = p.prompt]
        OBVIOUS
      <4>2. y = [p EXCEPT !.at = "seeded"]
        BY <1>2, <4>1 DEF RequestStates
      <4> QED BY <4>1, <4>2 DEF BecomesAt
    <3> HIDE DEF q
    <3> QED BY <2>1, <3>1, <3>2
  <2> HIDE DEF q
  <2>4. InFlight' = InFlight
    BY <1>1, <2>2, <2>3, FlightIs DEF ChatInv
  <2>5. odd \subseteq odd' /\ Overlooked(r, k) \subseteq Unsure' /\ Unsure \subseteq Unsure' /\ odd' \subseteq 1..asked
        /\ InStep' \subseteq InStep
    <3>1. Overlooked(r, k) \subseteq 1..asked /\ odd \subseteq 1..asked
      BY <1>2, OldestIs DEF ChatInv, ChatTypes
    <3> QED BY <1>2, <2>1, <2>4, <3>1 DEF Unsure, InStep
  <2>6. r \in 1..services /\ r \in 1..MaxServices /\ MemoryInv(memory[r])
    BY <1>4, HereIs
  <2> DEFINE V == IF r = service THEN InStep' ELSE {}
  <2>7. memory[r].begun => Agree(memory[r], turns, V)
    <3> SUFFICES ASSUME memory[r].begun PROVE Agree(memory[r], turns, V)
      OBVIOUS
    <3>1. CASE r = service
      <4>1. Agree(memory[r], turns, InStep)
        BY <1>4, <3>1 DEF ChatInv, InStepInv, Remembers
      <4> QED BY <1>2, <2>5, <2>6, <3>1, <4>1, AgreeLess
    <3>2. CASE r # service
      BY <1>2, <2>6, <3>2, AgreeNone
    <3> QED BY <3>1, <3>2
  <2>8. \A i \in 1..Len(turns) : turns[i].of \in Overlooked(r, k) => turns[i] \notin V
    BY <2>5 DEF InStep, Unsure
  <2> HIDE DEF V
  <2>9. MemoryInv(m) /\ m.live \in Seq(Until(asked)) /\ Agree(m, turns, V) /\ (m.begun <=> memory[r].begun \/ k # 0)
    <3> HIDE DEF r, k
    <3> QED BY <1>2, <2>6, <2>7, <2>8, SeedAgrees
  <2>10. memory'[r] = m /\ \A s \in 1..MaxServices : s # r => memory'[s] = memory[s]
    BY <1>2, <2>1, <2>6
  <2>11. ASSUME p.of \notin odd PROVE m.live \in Seq(Others(p.of)) /\ AloneInv(c)
    <3>1. AloneInv(c)
      BY <1>1, <2>11, HereIs
    <3>2. memory[r].live \in Seq(Others(p.of))
      BY <1>1, <1>4, <3>1 DEF AloneInv
    <3> DEFINE O == Others(p.of)  o == memory[r]  f == SubSeq(turns, 1, k)
    <3>3. O \subseteq Turns /\ f \in Seq(O) /\ Oldest(k) = f
      BY <1>2, UntilIs DEF Oldest
    <3>4. Seeded(o, f).live \in Seq(O)
      <4> HIDE DEF O, o, k
      <4>1. MemoryInv(o) /\ o.live \in Seq(O)
        BY <2>6, <3>2 DEF O, o
      <4> QED BY <1>2, <3>3, <4>1, SeededIs
    <3> QED BY <3>1, <3>3, <3>4
  <2> HIDE DEF m
  <2>12. Moves(c, q)
    <3>1. asked' \in asked..MaxQuestions
      BY <1>1, <1>2
    <3>2. m \in MemoryStates
      BY <2>9 DEF MemoryInv
    <3> QED BY <1>1, <2>1, <2>2, <2>3, <2>5, <2>6, <2>9, <3>1, <3>2 DEF Moves
  <2>13. InStepInv'
    <3> SUFFICES ASSUME service # 0, memory'[service].begun PROVE Agree(memory'[service], turns, InStep')
      BY <1>1 DEF InStepInv, Remembers
    <3>1. CASE r = service
      BY <2>9, <2>10, <3>1 DEF V
    <3>2. CASE r # service
      <4>1. service \in 1..MaxServices /\ MemoryInv(memory[service]) /\ memory'[service] = memory[service]
        BY <2>10, <3>2, InvIs
      <4>2. Agree(memory[service], turns, InStep)
        BY <4>1 DEF ChatInv, InStepInv, Remembers
      <4> QED BY <1>2, <2>5, <4>1, <4>2, AgreeLess
    <3> QED BY <3>1, <3>2
  <2>14. RequestInv(c)'
    <3>1. ~ memory'[r].begun => \A i \in 1..Len(turns) : turns[i].of \in Unsure'
      <4> SUFFICES ASSUME ~ memory'[r].begun, NEW i \in 1..Len(turns) PROVE turns[i].of \in Unsure'
        OBVIOUS
      <4>1. k = 0 /\ ~ memory[r].begun
        BY <2>9, <2>10
      <4>2. turns[i].of \in Overlooked(r, k)
        BY <4>1 DEF Overlooked
      <4> QED BY <2>5, <4>2
    <3>2. p.of \notin odd' => p.prompt \in Seq(Others(p.of))
      BY <1>2, <2>5 DEF RequestInv
    <3> QED BY <1>1, <1>2, <1>4, <2>2, <2>3, <3>1, <3>2 DEF RequestInv
  <2>15. ASSUME q.of \notin odd' PROVE AloneInv(c)'
    <3>1. AloneInv(c) /\ m.live \in Seq(Others(p.of))
      BY <2>2, <2>5, <2>11, <2>15
    <3>2. Lonely(c)'
      BY <2>2, <2>3, <3>1, FlightIs DEF ChatInv, AloneInv
    <3>3. r # service => ~ Remembers'
      <4> SUFFICES ASSUME r # service, service # 0, memory'[service].begun PROVE FALSE
        BY <1>1 DEF Remembers
      <4>1. service \in 1..MaxServices /\ memory'[service] = memory[service]
        BY <2>10, InvIs
      <4> QED BY <3>1, <4>1 DEF AloneInv, Remembers
    <3> QED BY <1>1, <1>4, <2>2, <2>3, <2>10, <3>1, <3>2, <3>3 DEF AloneInv
  <2> QED BY <2>12, <2>13, <2>14, <2>15, MoveIs
<1> QED BY <1>3, <1>4

LEMMA StepReloadRag ==
    ASSUME ChatInv, NEW s, ReloadRag(s)
    PROVE  ChatInv'
<1> USE ConversationsAssumption
<1>1. /\ s \in {0, services + 1} /\ services < MaxServices /\ service' = s /\ services' = services + 1
      /\ memory' = Reachable(s, request) /\ UNCHANGED <<turns, request, asked, odd>>
  BY DEF ReloadRag
<1>2. /\ asked \in 0..MaxQuestions /\ services \in 0..MaxServices /\ service \in 0..services
      /\ memory \in [1..MaxServices -> MemoryStates] /\ turns \in Seq(Turns)
      /\ services \in Nat /\ request \in [Callers -> RequestStates]
  BY InvIs DEF ChatInv, ChatTypes
<1>3. /\ \A r \in 1..MaxServices : memory'[r] = memory[r] \/ memory'[r] = Nobody
      /\ \A c \in Callers : request[c].service # 0 => memory'[request[c].service] = memory[request[c].service]
      /\ memory' \in [1..MaxServices -> MemoryStates]
  <2>1. \A r \in 1..MaxServices :
           memory'[r] = IF r = s \/ \E c \in Callers : request[c].service = r THEN memory[r] ELSE Nobody
    BY <1>1 DEF Reachable
  <2>2. Nobody \in MemoryStates
    BY NobodyIs DEF MemoryInv
  <2>3. memory' \in [1..MaxServices -> MemoryStates]
    BY <1>1, <1>2, <2>2 DEF Reachable
  <2>4. \A c \in Callers : request[c].service # 0 => request[c].service \in 1..MaxServices
    BY <1>2 DEF RequestStates
  <2> QED BY <2>1, <2>3, <2>4
<1>4. ~ Remembers'
  <2> SUFFICES ASSUME s # 0, memory'[s].begun PROVE FALSE
    BY <1>1 DEF Remembers
  <2>1. s \in 1..MaxServices /\ s > services
    BY <1>1, <1>2
  <2>2. memory[s] = Nobody
    BY <2>1 DEF ChatInv, MemoriesInv
  <2> QED BY <1>3, <2>1, <2>2, NobodyIs
<1>5. ChatTypes'
  <2>1. services' \in 0..MaxServices /\ service' \in 0..services'
    BY <1>1, <1>2
  <2> QED BY <1>1, <1>3, <2>1 DEF ChatInv, ChatTypes
<1>6. MemoriesInv'
  <2> SUFFICES ASSUME NEW r \in 1..MaxServices
               PROVE  /\ MemoryInv(memory'[r]) /\ memory'[r].live \in Seq(Until(asked))
                      /\ r > services' => memory'[r] = Nobody
    BY <1>1 DEF MemoriesInv
  <2>1. MemoryInv(Nobody) /\ Nobody.live \in Seq(Until(asked))
    <3>1. <<>> \in Seq(Until(asked))
      OBVIOUS
    <3> QED BY <3>1, NobodyIs
  <2>2. MemoryInv(memory[r]) /\ memory[r].live \in Seq(Until(asked)) /\ (r > services => memory[r] = Nobody)
    BY DEF ChatInv, MemoriesInv
  <2>3. r > services' => r > services
    BY <1>1, <1>2
  <2>4. memory'[r] = memory[r] \/ memory'[r] = Nobody
    BY <1>3
  <2> QED BY <2>1, <2>2, <2>3, <2>4
<1>7. Unsure' = Unsure /\ NotOdd' = NotOdd
  BY <1>1 DEF Unsure, InFlight, NotOdd
<1>8. ASSUME NEW c \in Callers PROVE RequestInv(c)'
  <2> DEFINE q == request[c]
  <2>1. RequestInv(c) /\ q \in RequestStates /\ request'[c] = q /\ q.service \in Nat
    BY <1>1, HereIs DEF RequestStates
  <2>2. q.service <= services' /\ (q.service = service' => q.service = 0)
    <3>1. q.service <= services
      BY <2>1 DEF RequestInv
    <3> QED BY <1>1, <1>2, <2>1, <3>1
  <2>3. q.service # 0 => memory'[q.service] = memory[q.service]
    BY <1>3
  <2>4. Oldest(q.read)' = Oldest(q.read)
    BY <1>1 DEF Oldest
  <2> HIDE DEF q
  <2>5. q = request[c]
    BY DEF q
  <2> QED BY <1>1, <2>1, <2>2, <2>3, <2>5 DEF RequestInv, Oldest
<1>9. ASSUME NEW c \in Callers, request'[c].at # "idle", request'[c].of \notin odd' PROVE AloneInv(c)'
  <2> DEFINE q == request[c]
  <2>1. AloneInv(c) /\ RequestInv(c) /\ request'[c] = q /\ q \in RequestStates
    BY <1>1, <1>9, HereIs
  <2>2. q.service = service' => q.service = 0
    <3>1. q.service <= services /\ q.service \in Nat
      BY <2>1 DEF RequestInv, RequestStates
    <3> QED BY <1>1, <1>2, <3>1
  <2>3. q.service # 0 => memory'[q.service] = memory[q.service]
    BY <1>3
  <2>4. Lonely(c)'
    BY <1>1, <2>1 DEF AloneInv, Lonely
  <2>5. q.at = "citing" => q.service # 0
    BY <2>1 DEF RequestInv
  <2> HIDE DEF q
  <2>6. q = request[c]
    BY DEF q
  <2> QED BY <1>1, <1>4, <2>1, <2>2, <2>3, <2>4, <2>5, <2>6 DEF AloneInv
<1>10. RequestsInv' /\ AlonesInv' /\ InStepInv'
  BY <1>4, <1>8, <1>9 DEF RequestsInv, AlonesInv, InStepInv
<1> QED BY <1>5, <1>6, <1>10 DEF ChatInv

LEMMA StepRestartChat ==
    ASSUME ChatInv, NEW s, RestartChat(s)
    PROVE  ChatInv'
<1> USE ConversationsAssumption
<1>1. /\ s \in {0, services + 1} /\ services < MaxServices /\ service' = s /\ services' = services + 1
      /\ request' = [c \in Callers |-> Unasked]
      /\ memory' = Reachable(s, request') /\ UNCHANGED <<turns, asked, odd>>
  BY DEF RestartChat
<1>2. /\ asked \in 0..MaxQuestions /\ services \in 0..MaxServices /\ service \in 0..services
      /\ services \in Nat
  BY InvIs DEF ChatInv, ChatTypes
<1>3. \A r \in 1..MaxServices : memory'[r] = Nobody
  <2> SUFFICES ASSUME NEW r \in 1..MaxServices PROVE memory'[r] = Nobody
    OBVIOUS
  <2>1. memory'[r] = IF r = s \/ \E c \in Callers : request'[c].service = r THEN memory[r] ELSE Nobody
    BY <1>1 DEF Reachable
  <2>2. \A c \in Callers : request'[c].service # r
    BY <1>1, UnaskedIs
  <2>3. r = s => memory[r] = Nobody
    <3> SUFFICES ASSUME r = s PROVE memory[r] = Nobody
      OBVIOUS
    <3>1. r > services
      BY <1>1, <1>2
    <3> QED BY <3>1 DEF ChatInv, MemoriesInv
  <2> QED BY <2>1, <2>2, <2>3
<1>4. memory' \in [1..MaxServices -> MemoryStates]
  <2>1. memory' = [r \in 1..MaxServices |-> memory'[r]]
    BY <1>1 DEF Reachable
  <2>2. Nobody \in MemoryStates
    BY NobodyIs DEF MemoryInv
  <2> QED BY <1>3, <2>1, <2>2
<1>5. ChatTypes'
  <2>1. services' \in 0..MaxServices /\ service' \in 0..services'
    BY <1>1, <1>2
  <2>2. request' \in [Callers -> RequestStates]
    BY <1>1, UnaskedIs
  <2> QED BY <1>1, <1>4, <2>1, <2>2 DEF ChatInv, ChatTypes
<1>6. MemoriesInv'
  <2>1. MemoryInv(Nobody) /\ Nobody.live \in Seq(Until(asked))
    <3>1. <<>> \in Seq(Until(asked))
      OBVIOUS
    <3> QED BY <3>1, NobodyIs
  <2> QED BY <1>1, <1>3, <2>1 DEF MemoriesInv
<1>7. ASSUME NEW c \in Callers PROVE RequestInv(c)' /\ request'[c].at = "idle"
  <2>1. request'[c] = Unasked /\ 0 <= services' /\ <<>> \in Seq(Others(0))
    BY <1>1, <1>2
  <2> QED BY <2>1, UnaskedIs DEF RequestInv
<1>8. ~ Remembers'
  <2> SUFFICES ASSUME s # 0, memory'[s].begun PROVE FALSE
    BY <1>1 DEF Remembers
  <2>1. s \in 1..MaxServices
    BY <1>1, <1>2
  <2> QED BY <1>3, <2>1, NobodyIs
<1> QED BY <1>5, <1>6, <1>7, <1>8 DEF ChatInv, RequestsInv, AlonesInv, InStepInv

LEMMA StepIsInv ==
    ASSUME ChatInv, [ChatNext]_chatVars
    PROVE  ChatInv'
<1>1. ASSUME NEW c \in Callers,
             \/ AskWhole(c) \/ AskStream(c) \/ SeedStream(c) \/ BuildPrompt(c)
             \/ Retrieved(c) \/ AnswerWhole(c) \/ AnswerStream(c) \/ StoreAnswer(c) \/ RequestFails(c) \/ HangsUp(c)
      PROVE  ChatInv'
  BY <1>1, StepAskWhole, StepAskStream, StepSeedStream, StepBuildPrompt, StepRetrieved, StepAnswerWhole,
     StepAnswerStream, StepStoreAnswer, StepRequestFails, StepHangsUp
<1>2. ASSUME NEW s \in 0..MaxServices, ReloadRag(s) \/ RestartChat(s) PROVE ChatInv'
  BY <1>2, StepReloadRag, StepRestartChat
<1>3. CASE UNCHANGED chatVars
  <2>1. UNCHANGED <<turns, service, services, memory, request, asked, odd>>
    BY <1>3 DEF chatVars
  <2>2. ChatTypes' /\ MemoriesInv'
    BY <2>1 DEF ChatInv, ChatTypes, MemoriesInv
  <2>3. RequestsInv'
    BY <2>1 DEF ChatInv, RequestsInv, RequestInv, Oldest, Unsure, InFlight
  <2>4. AlonesInv'
    BY <2>1 DEF ChatInv, AlonesInv, AloneInv, Lonely, NotOdd, Remembers
  <2>5. InStepInv'
    BY <2>1 DEF ChatInv, InStepInv, Remembers, InStep, InFlight
  <2> QED BY <2>2, <2>3, <2>4, <2>5 DEF ChatInv
<1> QED BY <1>1, <1>2, <1>3 DEF ChatNext

LEMMA InvIsKept == ChatInv => ChatTypeOK /\ ConversationIsKept
<1> USE ConversationsAssumption
<1> SUFFICES ASSUME ChatInv PROVE ChatTypeOK /\ ConversationIsKept
  OBVIOUS
<1>1. /\ turns \in Seq(Turns) /\ services \in Nat /\ services \in 0..MaxServices /\ service \in 0..services
      /\ memory \in [1..MaxServices -> MemoryStates] /\ asked \in 0..MaxQuestions /\ odd \subseteq 1..asked
  BY InvIs DEF ChatInv, ChatTypes
<1>2. ASSUME NEW s \in 1..MaxServices
      PROVE  /\ memory[s].begun \in BOOLEAN /\ memory[s].live \in Seq(Turns)
             /\ Len(memory[s].live) <= WindowSize
             /\ memory[s].pending \in Nat /\ (Chunk <= WindowSize => memory[s].pending < CompressAt)
  BY DEF ChatInv, MemoriesInv, MemoryInv, MemoryStates
<1>3. ASSUME NEW c \in Callers
      PROVE  /\ request[c].at \in ChatStages /\ request[c].of \in 0..asked
             /\ request[c].service \in 0..services
             /\ request[c].prompt \in Seq(Turns)
  <2> DEFINE q == request[c]
  <2>1. q \in RequestStates /\ RequestInv(c)
    BY HereIs
  <2>2. q.at \in ChatStages /\ q.prompt \in Seq(Turns) /\ q.service <= services /\ q.service \in 0..MaxServices
    BY <2>1 DEF RequestInv, RequestStates
  <2>3. q.of \in 0..asked
    <3>1. q.at = "idle" => q.of = 0
      BY <2>1, UnaskedIs DEF RequestInv
    <3>2. q.at # "idle" => q.of \in 1..asked
      BY HereIs
    <3> QED BY <1>1, <3>1, <3>2
  <2> QED BY <1>1, <2>2, <2>3
<1>4. ChatTypeOK
  BY <1>1, <1>2, <1>3 DEF ChatTypeOK
<1>5. ASSUME service # 0, memory[service].begun
      PROVE  LET m == memory[service]
                 known == Among(m.live, InStep)
                 kept == Among(turns, InStep \cap Said)
             IN  /\ IsSuffix(known, kept)
                 /\ Len(m.live) < Fewest => known = kept
                 /\ m.tokens = Tokens(m.live)
  <2>1. MemoryInv(memory[service]) /\ Agree(memory[service], turns, InStep)
    BY <1>5, InvIs DEF ChatInv, InStepInv, Remembers
  <2> QED BY <2>1 DEF Agree, MemoryInv
<1>6. ASSUME NEW c \in Callers, NEW i \in 1..Len(request[c].prompt), request[c].of \notin odd
      PROVE  request[c].prompt[i].of # request[c].of
  <2>1. request[c].prompt \in Seq(Others(request[c].of))
    BY <1>6, HereIs DEF RequestInv
  <2>2. request[c].prompt[i] \in Others(request[c].of)
    BY <2>1
  <2> QED BY <2>2 DEF Others
<1> QED BY <1>4, <1>5, <1>6 DEF ConversationIsKept

\* ConversationIsKept, for every number of callers, questions, services and
\* turns that the memory, a summary, a prompt and a read may hold: what the
\* memory of the RAG service holds is the end of what the database holds,
\* whatever requests, hang-ups, failures, reloads and restarts came before.
THEOREM ConversationIsAlwaysKept == Spec => []ConversationIsKept
<1>1. Init => ChatInv
  BY PartSteps, InitIsInv
<1>2. ChatInv /\ [Next]_vars => ChatInv'
  BY PartSteps, StepIsInv
<1>3. ChatInv => ConversationIsKept
  BY InvIsKept
<1> QED BY <1>1, <1>2, <1>3, PTL DEF Spec

-----------------------------------------------------------------------------
(* Retrieval: what is found is of the collection, no text twice.            *)

\* A list of chunks of the collection of which no two say the same.
Listed(chunks, S) == chunks \in Seq(S) /\ NoTwice(chunks, Content)

LEMMA TablesAre ==
    \A c \in ChunkIds : Document[c] \in Nat /\ Content[c] \in Nat /\ Size[c] \in Nat
<1> SUFFICES ASSUME NEW c \in ChunkIds PROVE Document[c] \in Nat /\ Content[c] \in Nat /\ Size[c] \in Nat
  OBVIOUS
<1>1. c = 1 \/ c = 2 \/ c = 3 \/ c = 4 \/ c = 5
  BY DEF ChunkIds
<1> QED BY <1>1 DEF Document, Content, Size

LEMMA PromptConstants ==
    TopK \in Nat /\ MaxDocuments \in Nat /\ MaxPerDocument \in Nat /\ MaxPrompt \in Nat /\ MaxPrompts \in Nat
    /\ TopK # 0 /\ MaxPrompt # 0
BY PromptsAssumption

LEMMA AtMostIs ==
    ASSUME NEW S, NEW s \in Seq(S), NEW n \in Nat
    PROVE  /\ AtMost(s, n) \in Seq(S) /\ From(AtMost(s, n), s)
           /\ \A key : NoTwice(s, key) => NoTwice(AtMost(s, n), key)
           /\ Len(AtMost(s, n)) <= Len(s)
<1> DEFINE k == IF Len(s) < n THEN Len(s) ELSE n
<1>1. Len(s) \in Nat /\ k \in 0..Len(s) /\ 1 \in 1..(Len(s) + 1) /\ 1 <= k + 1
  OBVIOUS
<1>2. AtMost(s, n) = SubSeq(s, 1, k)
  BY DEF AtMost
<1> HIDE DEF k
<1>3. /\ SubSeq(s, 1, k) \in Seq(S) /\ From(SubSeq(s, 1, k), s)
      /\ Len(SubSeq(s, 1, k)) = k - 1 + 1
  BY <1>1, PartIs
<1>4. \A key : NoTwice(s, key) => NoTwice(SubSeq(s, 1, k), key)
  BY <1>1, PartNoTwice
<1> QED BY <1>1, <1>2, <1>3, <1>4

LEMMA RerankedIs ==
    ASSUME NEW S, NEW s, Listed(s, S), NEW r \in Reranked(s)
    PROVE  Listed(r, S)
<1>1. s \in Seq(S) /\ Len(s) \in Nat
  BY DEF Listed
<1>2. CASE r = s
  BY <1>2
<1>3. CASE r = Reverse(s)
  <2>1. r \in Seq(S) /\ Len(r) = Len(s) /\ \A i \in 1..Len(s) : r[i] = s[Len(s) - i + 1]
    BY <1>1, <1>3 DEF Reverse
  <2>2. ASSUME NEW i \in 1..Len(r), NEW j \in 1..Len(r), Content[r[i]] = Content[r[j]] PROVE i = j
    <3> DEFINE a == Len(s) - i + 1  b == Len(s) - j + 1
    <3>1. a \in 1..Len(s) /\ b \in 1..Len(s) /\ i = Len(s) - a + 1 /\ j = Len(s) - b + 1
      <4> DEFINE n == Len(s)
      <4>1. n \in Nat /\ i \in 1..n /\ j \in 1..n
        BY <1>1, <2>1, <2>2
      <4> HIDE DEF n
      <4>2. n - i + 1 \in 1..n /\ n - j + 1 \in 1..n
            /\ i = n - (n - i + 1) + 1 /\ j = n - (n - j + 1) + 1
        BY <4>1
      <4> QED BY <4>2 DEF n
    <3>2. r[i] = s[a] /\ r[j] = s[b]
      BY <2>1
    <3> HIDE DEF a, b
    <3>3. a = b
      BY <2>2, <3>1, <3>2 DEF Listed, NoTwice
    <3> QED BY <3>1, <3>3
  <2> QED BY <2>1, <2>2 DEF Listed, NoTwice
<1>4. CASE Len(s) > 1 /\ r = Tail(s)
  <2>1. r \in Seq(S) /\ Len(r) = Len(s) - 1 /\ \A i \in 1..Len(r) : r[i] = s[i + 1]
    BY <1>1, <1>4
  <2>2. ASSUME NEW i \in 1..Len(r), NEW j \in 1..Len(r), Content[r[i]] = Content[r[j]] PROVE i = j
    <3>1. i + 1 \in 1..Len(s) /\ j + 1 \in 1..Len(s)
      BY <1>1, <2>1
    <3>2. i + 1 = j + 1
      BY <2>1, <2>2, <3>1 DEF Listed, NoTwice
    <3> QED BY <3>2
  <2> QED BY <2>1, <2>2 DEF Listed, NoTwice
<1> QED BY <1>2, <1>3, <1>4 DEF Reranked

LEMMA RetrievalsAre ==
    ASSUME NEW S \in SUBSET ChunkIds, NEW r \in Retrievals(S)
    PROVE  Listed(r, S)
<1>1. Cardinality(S) \in Nat
  <2>1. IsFiniteSet(ChunkIds)
    <3>1. 1 \in Int /\ 5 \in Int
      OBVIOUS
    <3>2. IsFiniteSet(1..5)
      BY <3>1, FS_Interval
    <3> QED BY <3>2 DEF ChunkIds
  <2>2. IsFiniteSet(S)
    BY <2>1, FS_Subset
  <2> QED BY <2>2, FS_CardinalityType
<1>2. PICK hits \in Rankings(S) : \E s \in Found(hits) : r \in Reranked(s)
  BY DEF Retrievals
<1>3. hits \in Seq(S)
  <2>1. hits \in [1..Cardinality(S) -> S]
    BY <1>2 DEF Rankings, SetToSeqs
  <2> QED BY <1>1, <2>1
<1>4. PICK s \in Found(hits) : r \in Reranked(s)
  BY <1>2
<1> DEFINE best == AtMost(hits, TopK)
           deduped == DeduplicatedByText(best)
<1>5. best \in Seq(S)
  BY <1>3, AtMostIs, PromptConstants
<1> HIDE DEF best
<1>6. Listed(deduped, S)
  BY <1>5, FirstsAre DEF DeduplicatedByText, Listed
<1>7. PICK n \in 0..Len(deduped) : s = SubSeq(deduped, 1, n)
  BY <1>4 DEF Found, best
<1> HIDE DEF deduped
<1>8. Listed(s, S)
  <2>1. deduped \in Seq(S) /\ Len(deduped) \in Nat /\ 1 \in 1..(Len(deduped) + 1) /\ 1 <= n + 1
    BY <1>6 DEF Listed
  <2> QED BY <1>6, <1>7, <2>1, PartIs, PartNoTwice DEF Listed
<1> QED BY <1>4, <1>8, RerankedIs

-----------------------------------------------------------------------------
(* The context.                                                            *)

LEMMA DocumentsAre ==
    ASSUME NEW chunks \in Seq(ChunkIds)
    PROVE  /\ DocumentsOf(chunks) \in Seq(Nat)
           /\ \A i, j \in 1..Len(DocumentsOf(chunks)) :
                 DocumentsOf(chunks)[i] = DocumentsOf(chunks)[j] => i = j
           /\ \A j \in 1..Len(chunks) : \E i \in 1..Len(DocumentsOf(chunks)) :
                 DocumentsOf(chunks)[i] = Document[chunks[j]]
           /\ \A i \in 1..Len(DocumentsOf(chunks)) : \E j \in 1..Len(chunks) :
                 DocumentsOf(chunks)[i] = Document[chunks[j]]
<1> DEFINE best == Firsts(chunks, Document)
           ds == DocumentsOf(chunks)
<1>1. /\ best \in Seq(ChunkIds) /\ NoTwice(best, Document) /\ From(best, chunks)
      /\ \A j \in 1..Len(chunks) : \E i \in 1..Len(best) : Document[best[i]] = Document[chunks[j]]
  BY FirstsAre
<1>2. ds = [i \in DOMAIN best |-> Document[best[i]]]
  BY DEF DocumentsOf
<1> HIDE DEF best, ds
<1>3. Len(best) \in Nat /\ DOMAIN best = 1..Len(best) /\ \A i \in 1..Len(best) : Document[best[i]] \in Nat
  BY <1>1, TablesAre
<1>4. ds \in Seq(Nat) /\ Len(ds) = Len(best) /\ \A i \in 1..Len(best) : ds[i] = Document[best[i]]
  BY <1>2, <1>3
<1>5. \A i, j \in 1..Len(ds) : ds[i] = ds[j] => i = j
  BY <1>1, <1>4 DEF NoTwice
<1>6. ASSUME NEW j \in 1..Len(chunks) PROVE \E i \in 1..Len(ds) : ds[i] = Document[chunks[j]]
  <2>1. PICK i \in 1..Len(best) : Document[best[i]] = Document[chunks[j]]
    BY <1>1
  <2>2. i \in 1..Len(ds) /\ ds[i] = Document[chunks[j]]
    BY <1>4, <2>1
  <2> QED BY <2>2
<1>7. ASSUME NEW i \in 1..Len(ds) PROVE \E j \in 1..Len(chunks) : ds[i] = Document[chunks[j]]
  <2>1. i \in 1..Len(best) /\ ds[i] = Document[best[i]]
    BY <1>4
  <2>2. PICK j \in 1..Len(chunks) : best[i] = chunks[j]
    BY <1>1, <2>1 DEF From
  <2> QED BY <2>1, <2>2
<1> QED BY <1>4, <1>5, <1>6, <1>7 DEF ds

LEMMA OfDocumentIs ==
    ASSUME NEW S \in SUBSET ChunkIds, NEW chunks, Listed(chunks, S), NEW d
    PROVE  /\ Listed(OfDocument(chunks, d), S) /\ From(OfDocument(chunks, d), chunks)
           /\ \A i \in 1..Len(OfDocument(chunks, d)) : Document[OfDocument(chunks, d)[i]] = d
           /\ \A j \in 1..Len(chunks) : Document[chunks[j]] = d =>
                 \E i \in 1..Len(OfDocument(chunks, d)) : OfDocument(chunks, d)[i] = chunks[j]
<1> DEFINE V == {c \in ChunkIds : Document[c] = d}
<1>1. chunks \in Seq(S) /\ NoTwice(chunks, Content)
  BY DEF Listed
<1>2. \A j \in 1..Len(chunks) : chunks[j] \in ChunkIds
  BY <1>1
<1>3. \A j \in 1..Len(chunks) : Document[chunks[j]] = d => chunks[j] \in V
  BY <1>2
<1>4. \A c \in V : Document[c] = d
  OBVIOUS
<1>5. OfDocument(chunks, d) = Among(chunks, V)
  BY DEF OfDocument
<1> HIDE DEF V
<1>6. Listed(Among(chunks, V), S)
  BY <1>1, AmongIn, AmongNoTwice DEF Listed
<1>7. /\ From(Among(chunks, V), chunks)
      /\ \A i \in 1..Len(Among(chunks, V)) : Among(chunks, V)[i] \in V
      /\ \A j \in 1..Len(chunks) : chunks[j] \in V =>
            \E i \in 1..Len(Among(chunks, V)) : Among(chunks, V)[i] = chunks[j]
  BY <1>1, AmongElements
<1> QED BY <1>3, <1>4, <1>5, <1>6, <1>7

\* Chunks of different documents are different, so that no text comes twice.
LEMMA GroupIs ==
    ASSUME NEW S \in SUBSET ChunkIds, NEW chunks, Listed(chunks, S)
    PROVE  Listed(GroupByDocument(chunks), S)
<1> DEFINE documents == AtMost(DocumentsOf(chunks), MaxDocuments)
           ss == [i \in DOMAIN documents |-> AtMost(OfDocument(chunks, documents[i]), MaxPerDocument)]
<1>1. chunks \in Seq(S) /\ chunks \in Seq(ChunkIds) /\ NoTwice(chunks, Content) /\ Len(chunks) \in Nat
  BY DEF Listed
<1>2. documents \in Seq(Nat) /\ \A i, j \in 1..Len(documents) : documents[i] = documents[j] => i = j
  <2> DEFINE ds == DocumentsOf(chunks)
             k == IF Len(ds) < MaxDocuments THEN Len(ds) ELSE MaxDocuments
  <2>1. ds \in Seq(Nat) /\ \A i, j \in 1..Len(ds) : ds[i] = ds[j] => i = j
    BY <1>1, DocumentsAre
  <2>2. documents = SubSeq(ds, 1, k)
    BY DEF AtMost
  <2> HIDE DEF ds, documents
  <2>3. Len(ds) \in Nat /\ k \in 0..Len(ds) /\ 1 \in 1..(Len(ds) + 1) /\ 1 <= k + 1
    BY <2>1, PromptConstants
  <2> HIDE DEF k
  <2>4. /\ SubSeq(ds, 1, k) \in Seq(Nat) /\ Len(SubSeq(ds, 1, k)) = k - 1 + 1
        /\ \A i \in 1..(k - 1 + 1) : SubSeq(ds, 1, k)[i] = ds[1 + i - 1]
    BY <2>1, <2>3, PartIs
  <2>5. Len(documents) = k /\ documents \in Seq(Nat) /\ \A i \in 1..k : documents[i] = ds[i] /\ i \in 1..Len(ds)
    BY <2>2, <2>3, <2>4
  <2> QED BY <2>1, <2>5
<1> HIDE DEF documents
<1>3. ASSUME NEW i \in 1..Len(documents)
      PROVE  /\ ss[i] \in Seq(S) /\ NoTwice(ss[i], Content) /\ From(ss[i], chunks)
             /\ \A k \in 1..Len(ss[i]) : Document[ss[i][k]] = documents[i]
  <2> DEFINE of == OfDocument(chunks, documents[i])
             top == AtMost(of, MaxPerDocument)
  <2>1. /\ Listed(of, S) /\ From(of, chunks)
        /\ \A k \in 1..Len(of) : Document[of[k]] = documents[i]
    BY OfDocumentIs
  <2>2. ss[i] = top
    BY <1>2
  <2> HIDE DEF of
  <2>3. top \in Seq(S) /\ NoTwice(top, Content) /\ From(top, of)
    BY <2>1, AtMostIs, PromptConstants DEF Listed
  <2> HIDE DEF top, ss
  <2>4. \A k \in 1..Len(top) : \E j \in 1..Len(of) : top[k] = of[j]
    BY <2>3 DEF From
  <2>5. \A k \in 1..Len(of) : \E j \in 1..Len(chunks) : of[k] = chunks[j]
    BY <2>1 DEF From
  <2>6. \A k \in 1..Len(top) : \E j \in 1..Len(chunks) : top[k] = chunks[j]
    BY <2>4, <2>5
  <2>7. From(top, chunks)
    BY <2>6, Zenon DEF From
  <2>8. \A k \in 1..Len(top) : Document[top[k]] = documents[i]
    BY <2>1, <2>4
  <2> QED BY <2>2, <2>3, <2>7, <2>8
<1>4. ss \in Seq(Seq(S)) /\ Len(ss) = Len(documents)
  <2>1. DOMAIN ss = 1..Len(documents) /\ Len(documents) \in Nat
    BY <1>2
  <2>2. ss = [i \in 1..Len(documents) |-> ss[i]]
    BY <2>1
  <2> HIDE DEF ss
  <2> QED BY <1>3, <2>1, <2>2
<1> HIDE DEF ss
<1>5. ASSUME NEW i \in 1..Len(ss), NEW j \in 1..Len(ss), i # j,
             NEW k \in 1..Len(ss[i]), NEW l \in 1..Len(ss[j]), Content[ss[i][k]] = Content[ss[j][l]]
      PROVE  FALSE
  <2>1. PICK p \in 1..Len(chunks) : ss[i][k] = chunks[p]
    BY <1>3, <1>4 DEF From
  <2>2. PICK q \in 1..Len(chunks) : ss[j][l] = chunks[q]
    BY <1>3, <1>4 DEF From
  <2>3. p = q
    BY <1>1, <1>5, <2>1, <2>2 DEF NoTwice
  <2>4. documents[i] = documents[j]
    <3>1. Document[ss[i][k]] = documents[i] /\ Document[ss[j][l]] = documents[j]
      BY <1>3, <1>4
    <3>2. ss[i][k] = ss[j][l]
      BY <2>1, <2>2, <2>3, Zenon
    <3> QED BY <3>1, <3>2, Zenon
  <2> QED BY <1>2, <1>4, <1>5, <2>4
<1>6. FlattenSeq(ss) \in Seq(S) /\ NoTwice(FlattenSeq(ss), Content)
  <2>1. \A i \in 1..Len(ss) : NoTwice(ss[i], Content)
    BY <1>3, <1>4
  <2>2. \A i, j \in 1..Len(ss) : i # j =>
           \A k \in 1..Len(ss[i]), l \in 1..Len(ss[j]) : Content[ss[i][k]] # Content[ss[j][l]]
    BY <1>5
  <2>3. Apart(ss, Content)
    BY <2>1, <2>2 DEF Apart
  <2> QED BY <1>4, <2>3, FlattenSeqIs
<1>7. GroupByDocument(chunks) = FlattenSeq(ss)
  BY DEF GroupByDocument, ss, documents
<1> QED BY <1>6, <1>7 DEF Listed

\* No more is cut than is needed, and never more than there is.
LEMMA ReducedIs ==
    ASSUME NEW left, NEW L \in Nat, DOMAIN left = 0..L
    PROVE  \E n \in 0..L : /\ Reduced(left) = left[n]
                           /\ Fits(left[n]) \/ n = L
                           /\ \A k \in 0..L : k < n => ~ Fits(left[k])
<1> DEFINE enough == {n \in DOMAIN left : Fits(left[n]) \/ n + 1 \notin DOMAIN left}
           n == CHOOSE m \in enough : \A k \in enough : m <= k
<1>1. \A k : k \in enough <=> k \in 0..L /\ (Fits(left[k]) \/ k + 1 \notin 0..L)
  OBVIOUS
<1>2. \A k \in 0..L : k + 1 \notin 0..L <=> k = L
  OBVIOUS
<1>3. Reduced(left) = left[n]
  BY DEF Reduced
<1> HIDE DEF enough
<1>4. enough \in SUBSET Nat /\ L \in enough
  BY <1>1, <1>2
<1>5. \E m \in enough : \A k \in enough : m <= k
  BY <1>4, LeastExists
<1>6. n \in enough /\ \A k \in enough : n <= k
  BY <1>5
<1> HIDE DEF n
<1>7. n \in 0..L /\ (Fits(left[n]) \/ n = L)
  BY <1>1, <1>2, <1>6
<1>8. \A k \in 0..L : k < n => ~ Fits(left[k])
  <2>1. ASSUME NEW k \in 0..L, k < n, Fits(left[k]) PROVE FALSE
    <3>1. n <= k
      BY <1>1, <1>6, <2>1
    <3> QED BY <1>7, <2>1, <3>1
  <2> QED BY <2>1
<1> QED BY <1>3, <1>7, <1>8

LEMMA TrimHistoryIs ==
    ASSUME NEW history \in Seq(Nat)
    PROVE  /\ TrimHistory(history, HistoryBudget) \in Seq(Nat)
           /\ IsSuffix(TrimHistory(history, HistoryBudget), history)
<1> DEFINE room == {n \in 0..Len(history) : Total(SubSeq(history, n + 1, Len(history))) <= HistoryBudget}
           dropped == CHOOSE n \in room : \A k \in room : n <= k
<1>1. Len(history) \in room
  <2>1. Len(history) \in 0..Len(history) /\ SubSeq(history, Len(history) + 1, Len(history)) = <<>>
    OBVIOUS
  <2>2. Total(SubSeq(history, Len(history) + 1, Len(history))) <= HistoryBudget
    <3>1. 0 <= HistoryBudget
      BY DEF HistoryBudget
    <3> QED BY <2>1, <3>1, TotalEmpty
  <2> QED BY <2>1, <2>2
<1>2. room \in SUBSET Nat /\ room \subseteq 0..Len(history)
  OBVIOUS
<1>3. TrimHistory(history, HistoryBudget) = SubSeq(history, dropped + 1, Len(history))
  BY DEF TrimHistory
<1> HIDE DEF room
<1>4. \E m \in room : \A k \in room : m <= k
  BY <1>1, <1>2, LeastExists
<1>5. dropped \in room
  BY <1>4
<1> HIDE DEF dropped
<1>6. dropped \in 0..Len(history)
  BY <1>2, <1>5
<1> QED BY <1>3, <1>6, EndIs

Contexts == [chunks : Seq(ChunkIds), cited : Seq(Nat), history : Seq(Nat)]

LEMMA EmptyFits ==
    ASSUME NEW context, context.cited = <<>>, context.history = <<>>, context.chunks = <<>>,
           question \in Int, ~ Fits(context)
    PROVE  System + question > MaxPrompt
<1>1. Sizes(context.chunks) = <<>>
  BY DEF Sizes
<1>2. Total(context.history) = 0 /\ Total(Sizes(context.chunks)) = 0
  BY <1>1, TotalEmpty
<1>3. Estimate(context) = System + 0 + 0 + 0 + question
  BY <1>2 DEF Estimate
<1>4. System + 0 + 0 + 0 + question = System + question
  BY DEF System
<1>5. System + question \in Int /\ MaxPrompt \in Int
  BY PromptConstants DEF System
<1> QED BY <1>3, <1>4, <1>5 DEF Fits

\* What is left of a context: the beginning of its chunks and the end of its
\* history, which is cut only when no chunk is left.
FinalOf(F, C) ==
    /\ \E n \in 0..Len(C.chunks) : F.chunks = SubSeq(C.chunks, 1, n)
    /\ \E n \in 0..Len(C.history) : F.history = SubSeq(C.history, n + 1, Len(C.history))
                                    /\ (F.chunks # <<>> => n = 0)
    /\ F.cited = C.cited \/ (F.cited = <<>> /\ F.chunks = <<>>)
    /\ Fits(F) \/ (F.chunks = <<>> /\ F.cited = <<>> /\ F.history = <<>>)

LEMMA WithoutLastIs ==
    ASSUME NEW C \in Contexts, NEW n
    PROVE  /\ WithoutLast(C, n).chunks = SubSeq(C.chunks, 1, Len(C.chunks) - n)
           /\ WithoutLast(C, n).cited = C.cited /\ WithoutLast(C, n).history = C.history
BY DEF WithoutLast, Contexts

LEMMA WithoutOldestIs ==
    ASSUME NEW C \in Contexts, NEW n
    PROVE  /\ WithoutOldest(C, n).history = SubSeq(C.history, n + 1, Len(C.history))
           /\ WithoutOldest(C, n).cited = C.cited /\ WithoutOldest(C, n).chunks = C.chunks
BY DEF WithoutOldest, Contexts

LEMMA TrimChunksIs ==
    ASSUME NEW C \in Contexts
    PROVE  /\ TrimChunks(C) \in Contexts
           /\ \E n \in 0..Len(C.chunks) : TrimChunks(C).chunks = SubSeq(C.chunks, 1, n)
           /\ TrimChunks(C).cited = C.cited /\ TrimChunks(C).history = C.history
           /\ Fits(TrimChunks(C)) \/ TrimChunks(C).chunks = <<>>
<1> DEFINE L == Len(C.chunks)
           left == [n \in 0..L |-> WithoutLast(C, n)]
           A == TrimChunks(C)
<1>1. L \in Nat /\ C.chunks \in Seq(ChunkIds) /\ DOMAIN left = 0..L
  BY DEF Contexts
<1>2. A = Reduced(left)
  BY DEF TrimChunks
<1> HIDE DEF left, A
<1>3. PICK n \in 0..L : A = left[n] /\ (Fits(left[n]) \/ n = L)
  BY <1>1, <1>2, ReducedIs
<1>4. A = WithoutLast(C, n)
  BY <1>3 DEF left
<1>5. A.chunks = SubSeq(C.chunks, 1, L - n) /\ A.cited = C.cited /\ A.history = C.history
  BY <1>4, WithoutLastIs
<1>6. L - n \in 0..L
  BY <1>1, <1>3
<1>7. SubSeq(C.chunks, 1, L - n) \in Seq(ChunkIds)
  BY <1>1, <1>6, BeginningIs
<1>8. A \in Contexts
  BY <1>4, <1>7 DEF WithoutLast, Contexts
<1>9. n = L => A.chunks = <<>>
  <2>1. n = L => SubSeq(C.chunks, 1, L - n) = <<>>
    BY <1>1
  <2> QED BY <1>5, <2>1
<1> QED BY <1>3, <1>5, <1>6, <1>8, <1>9 DEF A

LEMMA TrimMessagesIs ==
    ASSUME NEW C \in Contexts
    PROVE  /\ TrimMessages(C) \in Contexts
           /\ \E n \in 0..Len(C.history) : /\ TrimMessages(C).history = SubSeq(C.history, n + 1, Len(C.history))
                                           /\ Fits(C) => n = 0
           /\ TrimMessages(C).cited = C.cited /\ TrimMessages(C).chunks = C.chunks
           /\ Fits(TrimMessages(C)) \/ (~ Fits(C) /\ TrimMessages(C).history = <<>>)
<1> DEFINE L == Len(C.history)
           left == [n \in 0..L |-> WithoutOldest(C, n)]
           B == TrimMessages(C)
<1>1. L \in Nat /\ C.history \in Seq(Nat) /\ DOMAIN left = 0..L /\ 0 \in 0..L
  BY DEF Contexts
<1>2. B = Reduced(left)
  BY DEF TrimMessages
<1>0. left[0] = C
  <2>1. left[0] = WithoutOldest(C, 0)
    BY <1>1
  <2>2. SubSeq(C.history, 0 + 1, L) = C.history
    BY <1>1
  <2>3. [C EXCEPT !.history = C.history] = C
    BY DEF Contexts
  <2> HIDE DEF left
  <2> QED BY <2>1, <2>2, <2>3 DEF WithoutOldest
<1> HIDE DEF left, B
<1>3. PICK n \in 0..L : /\ B = left[n] /\ (Fits(left[n]) \/ n = L)
                        /\ \A k \in 0..L : k < n => ~ Fits(left[k])
  BY <1>1, <1>2, ReducedIs
<1>4. B = WithoutOldest(C, n)
  BY <1>3 DEF left
<1>5. B.history = SubSeq(C.history, n + 1, L) /\ B.cited = C.cited /\ B.chunks = C.chunks
  BY <1>4, WithoutOldestIs
<1>6. SubSeq(C.history, n + 1, L) \in Seq(Nat)
  BY <1>1, EndIs
<1>7. B \in Contexts
  BY <1>4, <1>6 DEF WithoutOldest, Contexts
<1>8. n = L => B.history = <<>>
  <2>1. n = L => SubSeq(C.history, n + 1, L) = <<>>
    BY <1>1
  <2> QED BY <1>5, <2>1
<1>9. Fits(C) => n = 0
  <2>1. n = 0 \/ 0 < n
    OBVIOUS
  <2> QED BY <1>0, <1>1, <1>3, <2>1
<1>10. Fits(B) \/ (n = L /\ ~ Fits(B))
  BY <1>3
<1>11. Fits(C) => Fits(B)
  BY <1>0, <1>3, <1>9
<1> QED BY <1>5, <1>7, <1>8, <1>9, <1>10, <1>11 DEF B

LEMMA FinalIs ==
    ASSUME NEW C \in Contexts
    PROVE  FinalOf(Optimize(C), C)
<1>0. C.chunks \in Seq(ChunkIds) /\ C.history \in Seq(Nat)
  BY DEF Contexts
<1>1. CASE Fits(C)
  <2>1. Optimize(C) = C
    BY <1>1 DEF Optimize
  <2>2. Len(C.chunks) \in 0..Len(C.chunks) /\ C.chunks = SubSeq(C.chunks, 1, Len(C.chunks))
    BY <1>0
  <2>3. 0 \in 0..Len(C.history) /\ C.history = SubSeq(C.history, 0 + 1, Len(C.history))
    BY <1>0
  <2> QED BY <1>1, <2>1, <2>2, <2>3 DEF FinalOf
<1>2. CASE ~ Fits(C)
  <2> DEFINE A == TrimChunks(C)  B == TrimMessages(A)  F == DropContext(B)
  <2>1. Optimize(C) = F
    BY <1>2 DEF Optimize
  <2>2. /\ A \in Contexts /\ (\E n \in 0..Len(C.chunks) : A.chunks = SubSeq(C.chunks, 1, n))
        /\ A.cited = C.cited /\ A.history = C.history /\ (Fits(A) \/ A.chunks = <<>>)
    BY TrimChunksIs
  <2> HIDE DEF A
  <2>3. /\ B \in Contexts
        /\ (\E n \in 0..Len(A.history) : /\ B.history = SubSeq(A.history, n + 1, Len(A.history))
                                         /\ Fits(A) => n = 0)
        /\ B.cited = A.cited /\ B.chunks = A.chunks
        /\ (Fits(B) \/ (~ Fits(A) /\ B.history = <<>>))
    BY <2>2, TrimMessagesIs
  <2> HIDE DEF B
  <2>4. PICK n \in 0..Len(C.chunks) : B.chunks = SubSeq(C.chunks, 1, n)
    BY <2>2, <2>3
  <2>5. PICK m \in 0..Len(C.history) : /\ B.history = SubSeq(C.history, m + 1, Len(C.history))
                                       /\ Fits(A) => m = 0
    BY <2>2, <2>3
  <2>6. B.chunks # <<>> => m = 0
    BY <2>2, <2>3, <2>5
  <2>7. CASE Fits(B)
    <3>1. F = B
      BY <2>7 DEF DropContext
    <3> HIDE DEF F
    <3> QED BY <2>1, <2>2, <2>3, <2>4, <2>5, <2>6, <2>7, <3>1 DEF FinalOf
  <2>8. CASE ~ Fits(B)
    <3>1. F = [B EXCEPT !.chunks = <<>>, !.cited = <<>>]
      BY <2>8 DEF DropContext
    <3>2. F.chunks = <<>> /\ F.cited = <<>> /\ F.history = B.history
      <4> HIDE DEF F
      <4> QED BY <2>3, <3>1 DEF Contexts
    <3>3. B.history = <<>>
      BY <2>3, <2>8
    <3>4. 0 \in 0..Len(C.chunks) /\ <<>> = SubSeq(C.chunks, 1, 0)
      BY <1>0
    <3> HIDE DEF F
    <3>5. \E k \in 0..Len(C.chunks) : F.chunks = SubSeq(C.chunks, 1, k)
      BY <3>2, <3>4
    <3>6. F.history = SubSeq(C.history, m + 1, Len(C.history))
      BY <2>5, <3>2
    <3> QED BY <2>1, <3>2, <3>3, <3>5, <3>6 DEF FinalOf
  <2> QED BY <2>7, <2>8
<1> QED BY <1>1, <1>2

LEMMA HistoriesAre == Histories \subseteq Seq(Nat)
<1>1. <<>> \in Seq(Nat) /\ <<1, 2, 1>> \in Seq(Nat)
  OBVIOUS
<1> QED BY <1>1 DEF Histories

LEMMA ContextIs ==
    ASSUME NEW S \in SUBSET ChunkIds, NEW chunks, Listed(chunks, S), NEW history \in Histories
    PROVE  /\ AssembleContext(chunks, history) \in Contexts
           /\ AssembleContext(chunks, history).chunks = GroupByDocument(chunks)
           /\ AssembleContext(chunks, history).cited = DocumentsOf(GroupByDocument(chunks))
           /\ AssembleContext(chunks, history).history = TrimHistory(history, HistoryBudget)
<1> DEFINE flat == GroupByDocument(chunks)  kept == TrimHistory(history, HistoryBudget)
<1>1. Listed(flat, S)
  BY GroupIs
<1>2. kept \in Seq(Nat)
  BY HistoriesAre, TrimHistoryIs
<1>3. AssembleContext(chunks, history) = [chunks |-> flat, cited |-> DocumentsOf(flat), history |-> kept]
  BY DEF AssembleContext
<1> HIDE DEF flat, kept
<1>4. flat \in Seq(ChunkIds)
  BY <1>1 DEF Listed
<1>5. DocumentsOf(flat) \in Seq(Nat)
  BY <1>4, DocumentsAre
<1> QED BY <1>2, <1>3, <1>4, <1>5 DEF Contexts, flat, kept

\* Of document d chunk c is told, scored if it is quoted.
Tells(c, d, quoted) ==
    Document[c] = d /\ (Contains(quoted, c) <=> \E q \in Range(quoted) : Document[q] = d)

\* The best chunk of a document is quoted as long as any of its chunks is.
LEMMA BestIs ==
    ASSUME NEW S \in SUBSET ChunkIds, NEW flat, Listed(flat, S), NEW n \in 0..Len(flat), NEW j \in 1..Len(flat)
    PROVE  Tells(OfDocument(flat, Document[flat[j]])[1], Document[flat[j]], SubSeq(flat, 1, n))
<1> DEFINE d == Document[flat[j]]
<1>0. d = Document[flat[j]]
  OBVIOUS
<1> HIDE DEF d
<1> DEFINE V == {c \in ChunkIds : Document[c] = d}
           q == SubSeq(flat, 1, n)
           all == OfDocument(flat, d)
           some == Among(q, V)
<1>1. flat \in Seq(S)
  BY DEF Listed
<1>2. /\ all \in Seq(S)
      /\ \A i \in 1..Len(all) : Document[all[i]] = d
      /\ \A k \in 1..Len(flat) : Document[flat[k]] = d => \E i \in 1..Len(all) : all[i] = flat[k]
  <2>1. Listed(all, S)
    BY OfDocumentIs
  <2> QED BY <2>1, OfDocumentIs DEF Listed
<1>3. PICK t \in Seq(S) : flat = q \o t
  BY <1>1, BeginningSplits
<1>4. q \in Seq(S)
  BY <1>1, BeginningIs
<1>5. all = Among(flat, V)
  BY DEF OfDocument
<1> HIDE DEF all, q
<1>6. all = some \o Among(t, V)
  <2>1. Among(q \o t, V) = Among(q, V) \o Among(t, V)
    BY <1>4, AmongConcat
  <2> HIDE DEF V
  <2> QED BY <1>3, <1>5, <2>1
<1>7. some \in Seq(S) /\ Among(t, V) \in Seq(S)
  BY <1>4, AmongIn
<1>8. /\ From(some, q)
      /\ \A k \in 1..Len(q) : q[k] \in V => \E i \in 1..Len(some) : some[i] = q[k]
  <2> HIDE DEF V
  <2> QED BY <1>4, AmongElements
<1>9. 1 \in 1..Len(all)
  <2>2. PICK i \in 1..Len(all) : all[i] = flat[j]
    BY <1>0, <1>2
  <2> HIDE DEF V, some
  <2>3. Len(all) \in Nat
    BY <1>2
  <2> QED BY <2>2, <2>3
<1>10. Document[all[1]] = d
  BY <1>2, <1>9
<1>11. DOMAIN q = 1..Len(q) /\ Range(q) = {q[i] : i \in 1..Len(q)}
  BY <1>4 DEF Range
<1>12. ASSUME Contains(q, all[1]) PROVE \E c \in Range(q) : Document[c] = d
  <2>1. PICK i \in 1..Len(q) : q[i] = all[1]
    BY <1>12 DEF Contains
  <2>2. q[i] \in Range(q)
    BY <1>11
  <2> QED BY <1>10, <2>1, <2>2
<1>13. ASSUME NEW c \in Range(q), Document[c] = d PROVE Contains(q, all[1])
  <2>1. PICK l \in 1..Len(q) : c = q[l]
    BY <1>11
  <2>2. q[l] \in V
    BY <1>4, <1>13, <2>1
  <2>3. PICK i \in 1..Len(some) : some[i] = q[l]
    BY <1>8, <2>2
  <2> HIDE DEF some
  <2>4. 1 \in 1..Len(some) /\ all[1] = some[1]
    BY <1>6, <1>7, <2>3
  <2>5. PICK k \in 1..Len(q) : some[1] = q[k]
    BY <1>8, <2>4 DEF From
  <2> QED BY <2>4, <2>5 DEF Contains
<1>14. Tells(all[1], d, q)
  BY <1>10, <1>12, <1>13 DEF Tells
<1> QED BY <1>14 DEF all, q, d

\* What PromptsAreGrounded says of a prompt p that chunks, which are of S, and
\* a question of q tokens have given.
Sound(p, chunks, S, q) ==
    LET quoted == p.chunks
        texts == [i \in DOMAIN quoted |-> Content[quoted[i]]]
    IN  /\ p.failed \in BOOLEAN /\ p.of.history \in Histories
        /\ p.failed => System + q > MaxPrompt
        /\ ~ p.failed => System + (IF p.cited = <<>> THEN 0 ELSE CiteThem) + Total(p.history)
                         + Total(Sizes(quoted)) + q <= MaxPrompt
        /\ IsPrefix(quoted, p.of.chunks) /\ Cardinality(Range(texts)) = Len(quoted)
        /\ {Document[c] : c \in Range(quoted)} \subseteq Range(p.cited)
        /\ \A i \in DOMAIN p.cited :
              /\ Document[p.citations[i].chunk] = p.cited[i]
              /\ p.citations[i].scored <=> \E c \in Range(quoted) : Document[c] = p.cited[i]
        /\ IsSuffix(p.history, p.of.history)
        /\ quoted # <<>> => p.history = TrimHistory(p.of.history, HistoryBudget)
        /\ Range(quoted) \subseteq S /\ p.of.chunks = AssembleContext(chunks, p.of.history).chunks

LEMMA FailedIsSound ==
    ASSUME NEW S \in SUBSET ChunkIds, NEW chunks, Listed(chunks, S), NEW history \in Histories,
           NEW q, System + q > MaxPrompt
    PROVE  Sound([NoPrompt EXCEPT !.failed = TRUE,
                                  !.of = [chunks |-> AssembleContext(chunks, history).chunks, history |-> history]],
                 chunks, S, q)
<1> DEFINE C == AssembleContext(chunks, history)
           of == [chunks |-> C.chunks, history |-> history]
           p == [NoPrompt EXCEPT !.failed = TRUE, !.of = of]
<1>1. C.chunks \in Seq(ChunkIds) /\ history \in Seq(Nat)
  BY ContextIs, HistoriesAre DEF Contexts
<1> HIDE DEF C
<1>2. /\ p.failed = TRUE /\ p.chunks = <<>> /\ p.cited = <<>> /\ p.history = <<>>
      /\ p.of.chunks = C.chunks /\ p.of.history = history
  BY DEF NoPrompt
<1> HIDE DEF p
<1>3. DOMAIN <<>> = {} /\ Range(<<>>) = {} /\ Len(<<>>) = 0
  BY DEF Range
<1>4. Cardinality(Range([i \in DOMAIN <<>> |-> Content[<<>>[i]]])) = Len(<<>>)
  <2>1. Range([i \in DOMAIN <<>> |-> Content[<<>>[i]]]) = {}
    BY <1>3 DEF Range
  <2> QED BY <1>3, <2>1, FS_EmptySet
<1>5. IsPrefix(<<>>, C.chunks)
  BY <1>1 DEF IsPrefix
<1>6. IsSuffix(<<>>, history)
  BY <1>1, SuffixSelf
<1>7. Sound(p, chunks, S, q)
  BY <1>2, <1>3, <1>4, <1>5, <1>6, Zenon DEF Sound, C
<1> QED BY <1>7 DEF p, C

\* The documents cited are those of the chunks.
Cites(ds, chunks) ==
    /\ ds \in Seq(Nat)
    /\ \A j \in 1..Len(chunks) : \E i \in 1..Len(ds) : ds[i] = Document[chunks[j]]
    /\ \A i \in 1..Len(ds) : \E j \in 1..Len(chunks) : ds[i] = Document[chunks[j]]

LEMMA CitesThem ==
    ASSUME NEW chunks \in Seq(ChunkIds)
    PROVE  Cites(DocumentsOf(chunks), chunks)
BY DocumentsAre DEF Cites

LEMMA FittingIsSound ==
    ASSUME NEW S \in SUBSET ChunkIds, NEW chunks, Listed(chunks, S), NEW history \in Histories,
           NEW F, FinalOf(F, AssembleContext(chunks, history)), Fits(F)
    PROVE  Sound([failed |-> FALSE, chunks |-> F.chunks, cited |-> F.cited,
                  citations |-> Citations(F, AssembleContext(chunks, history)), history |-> F.history,
                  of |-> [chunks |-> AssembleContext(chunks, history).chunks, history |-> history]],
                 chunks, S, question)
<1> DEFINE C == AssembleContext(chunks, history)
           quoted == F.chunks
           texts == [i \in DOMAIN quoted |-> Content[quoted[i]]]
           cites == Citations(F, C)
           kept == TrimHistory(history, HistoryBudget)
<1>1. Listed(C.chunks, S) /\ C.chunks \in Seq(S) /\ C.chunks \in Seq(ChunkIds) /\ NoTwice(C.chunks, Content)
  <2>1. Listed(C.chunks, S)
    BY ContextIs, GroupIs
  <2> QED BY <2>1 DEF Listed
<1>2. C.cited = DocumentsOf(C.chunks) /\ C.history = kept /\ history \in Seq(Nat)
  BY ContextIs, HistoriesAre
<1>3. kept \in Seq(Nat) /\ IsSuffix(kept, history)
  BY <1>2, TrimHistoryIs
<1>4. FinalOf(F, C) /\ Fits(F)
  OBVIOUS
<1>5. cites = [i \in DOMAIN F.cited |->
                  [chunk |-> OfDocument(C.chunks, F.cited[i])[1],
                   scored |-> Contains(F.chunks, OfDocument(C.chunks, F.cited[i])[1])]]
  BY DEF Citations
<1> HIDE DEF C, cites, kept
<1>6. PICK n \in 0..Len(C.chunks) : quoted = SubSeq(C.chunks, 1, n)
  BY <1>4 DEF FinalOf
<1>7. PICK m \in 0..Len(C.history) : /\ F.history = SubSeq(C.history, m + 1, Len(C.history))
                                     /\ (quoted # <<>> => m = 0)
  BY <1>4 DEF FinalOf
<1>8. F.cited = C.cited \/ (F.cited = <<>> /\ quoted = <<>>)
  BY <1>4 DEF FinalOf
<1>9. /\ quoted \in Seq(S) /\ From(quoted, C.chunks) /\ IsPrefix(quoted, C.chunks) /\ NoTwice(quoted, Content)
  BY <1>1, <1>6, BeginningIs
<1>10. Cardinality(Range(texts)) = Len(quoted)
  BY <1>9, KeysCount
<1> HIDE DEF texts
<1>11. Range(quoted) = {quoted[i] : i \in 1..Len(quoted)} /\ Range(quoted) \subseteq S
  BY <1>9 DEF Range
<1>12. /\ C.cited \in Seq(Nat)
       /\ \A j \in 1..Len(C.chunks) : \E i \in 1..Len(C.cited) : C.cited[i] = Document[C.chunks[j]]
       /\ \A i \in 1..Len(C.cited) : \E j \in 1..Len(C.chunks) : C.cited[i] = Document[C.chunks[j]]
  <2>1. Cites(C.cited, C.chunks)
    <3>1. Cites(DocumentsOf(C.chunks), C.chunks)
      BY <1>1, CitesThem
    <3> QED BY <1>2, <3>1
  <2> QED BY <2>1 DEF Cites
<1>13. {Document[c] : c \in Range(quoted)} \subseteq Range(F.cited)
  <2> SUFFICES ASSUME NEW c \in Range(quoted) PROVE Document[c] \in Range(F.cited)
    OBVIOUS
  <2>1. PICK i \in 1..Len(quoted) : c = quoted[i]
    BY <1>11
  <2>2. F.cited = C.cited
    <3>1. quoted # <<>>
      BY <2>1
    <3> QED BY <1>8, <3>1
  <2>3. PICK j \in 1..Len(C.chunks) : c = C.chunks[j]
    BY <1>9, <2>1 DEF From
  <2>4. PICK k \in 1..Len(C.cited) : C.cited[k] = Document[C.chunks[j]]
    BY <1>12
  <2>5. k \in DOMAIN F.cited /\ F.cited[k] = Document[c]
    BY <1>12, <2>2, <2>3, <2>4
  <2> QED BY <2>5 DEF Range
<1>14. ASSUME NEW i \in DOMAIN F.cited
       PROVE  /\ Document[cites[i].chunk] = F.cited[i]
              /\ cites[i].scored <=> \E c \in Range(quoted) : Document[c] = F.cited[i]
  <2>1. F.cited = C.cited /\ i \in 1..Len(C.cited)
    <3>1. F.cited # <<>>
      OBVIOUS
    <3>2. F.cited = C.cited
      BY <1>8, <3>1
    <3>3. DOMAIN C.cited = 1..Len(C.cited)
      BY <1>12
    <3> QED BY <3>2, <3>3
  <2>2. PICK j \in 1..Len(C.chunks) : C.cited[i] = Document[C.chunks[j]]
    BY <1>12, <2>1
  <2> DEFINE d == F.cited[i]  c == OfDocument(C.chunks, d)[1]
  <2>3. d = Document[C.chunks[j]]
    BY <2>1, <2>2
  <2>4. cites[i].chunk = c /\ cites[i].scored = Contains(quoted, c)
    BY <1>5
  <2>5. Tells(OfDocument(C.chunks, Document[C.chunks[j]])[1], Document[C.chunks[j]], SubSeq(C.chunks, 1, n))
    BY <1>1, BestIs
  <2>6. Tells(c, d, quoted)
    <3> HIDE DEF d
    <3> QED BY <1>6, <2>3, <2>5
  <2> QED BY <2>4, <2>6 DEF Tells
<1>15. IsSuffix(F.history, history)
  <2>1. F.history \in Seq(Nat) /\ IsSuffix(F.history, C.history)
    BY <1>2, <1>3, <1>7, EndIs
  <2> QED BY <1>2, <1>3, <2>1, SuffixTransitive
<1>16. quoted # <<>> => F.history = kept
  <2>1. SubSeq(kept, 0 + 1, Len(kept)) = kept
    BY <1>3
  <2> QED BY <1>2, <1>7, <2>1
<1>17. System + (IF F.cited = <<>> THEN 0 ELSE CiteThem) + Total(F.history) + Total(Sizes(quoted)) + question
          <= MaxPrompt
  BY <1>4 DEF Fits, Estimate
<1> DEFINE p == [failed |-> FALSE, chunks |-> quoted, cited |-> F.cited, citations |-> cites,
                 history |-> F.history, of |-> [chunks |-> C.chunks, history |-> history]]
<1>18. /\ p.failed = FALSE /\ p.chunks = quoted /\ p.cited = F.cited /\ p.citations = cites
       /\ p.history = F.history /\ p.of.chunks = C.chunks /\ p.of.history = history
  OBVIOUS
<1> HIDE DEF p
<1>19. FALSE \in BOOLEAN /\ history \in Histories
  OBVIOUS
<1> DEFINE T(s) == [i \in DOMAIN s |-> Content[s[i]]]
           D(s) == {Document[c] : c \in Range(s)}
           Every(cs, ts, s) == \A i \in DOMAIN cs : /\ Document[ts[i].chunk] = cs[i]
                                                    /\ ts[i].scored <=> \E c \in Range(s) : Document[c] = cs[i]
           Estimated(s, cs, h) == System + (IF cs = <<>> THEN 0 ELSE CiteThem) + Total(h) + Total(Sizes(s)) + question
<1>20. Every(F.cited, cites, quoted)
  BY <1>14
<1>21. T(quoted) = texts /\ D(quoted) \subseteq Range(F.cited) /\ Estimated(quoted, F.cited, F.history) <= MaxPrompt
  BY <1>13, <1>17 DEF texts
<1>22. /\ Every(p.cited, p.citations, p.chunks)
       /\ Cardinality(Range(T(p.chunks))) = Len(p.chunks) /\ D(p.chunks) \subseteq Range(p.cited)
       /\ Estimated(p.chunks, p.cited, p.history) <= MaxPrompt
  <2> HIDE DEF Every, T, D, Estimated
  <2> QED BY <1>10, <1>18, <1>20, <1>21, Zenon
<1>23. /\ p.failed \in BOOLEAN /\ ~ p.failed /\ p.of.history \in Histories
       /\ IsPrefix(p.chunks, p.of.chunks) /\ IsSuffix(p.history, p.of.history)
       /\ p.chunks # <<>> => p.history = TrimHistory(p.of.history, HistoryBudget)
       /\ Range(p.chunks) \subseteq S
       /\ p.of.chunks = AssembleContext(chunks, p.of.history).chunks
  BY <1>9, <1>11, <1>15, <1>16, <1>18, <1>19, Zenon DEF kept, C
<1>24. Sound(p, chunks, S, question)
  BY <1>22, <1>23, Zenon DEF Sound
<1> QED BY <1>24 DEF p, C, cites

LEMMA AnswerIsSound ==
    ASSUME NEW S \in SUBSET ChunkIds, NEW chunks, Listed(chunks, S), NEW history \in Histories, question \in Int
    PROVE  Sound(Answer(chunks, history), chunks, S, question)
<1> DEFINE C == AssembleContext(chunks, history)  F == Optimize(C)
           of == [chunks |-> C.chunks, history |-> history]
<1>1. FinalOf(F, C)
  BY ContextIs, FinalIs
<1>2. Answer(chunks, history) =
         IF Fits(F)
           THEN [failed |-> FALSE, chunks |-> F.chunks, cited |-> F.cited,
                 citations |-> Citations(F, C), history |-> F.history, of |-> of]
           ELSE [NoPrompt EXCEPT !.failed = TRUE, !.of = of]
  BY DEF Answer
<1> HIDE DEF F
<1>3. CASE Fits(F)
  BY <1>1, <1>2, <1>3, FittingIsSound
<1>4. CASE ~ Fits(F)
  <2>1. F.chunks = <<>> /\ F.cited = <<>> /\ F.history = <<>>
    BY <1>1, <1>4 DEF FinalOf
  <2>2. System + question > MaxPrompt
    BY <1>4, <2>1, EmptyFits
  <2>3. Sound([NoPrompt EXCEPT !.failed = TRUE, !.of = of], chunks, S, question)
    BY <2>2, FailedIsSound
  <2> HIDE DEF of
  <2> QED BY <1>2, <1>4, <2>3, Zenon
<1> QED BY <1>3, <1>4

-----------------------------------------------------------------------------

PromptInv ==
    /\ question \in {2, MaxPrompt - 1, MaxPrompt} /\ prompts \in 0..MaxPrompts
    /\ indexed \subseteq ChunkIds /\ since \subseteq ChunkIds
    /\ retrieved = NoEntry \/ Listed(retrieved, since)
    /\ prompt = NoPrompt \/ (Listed(retrieved, since) /\ Sound(prompt, retrieved, since, question))

LEMMA QuestionIs == ASSUME PromptInv PROVE question \in Int
BY PromptConstants DEF PromptInv

LEMMA PromptInvTypes == PromptInv => PromptsTypeOK
<1> SUFFICES ASSUME PromptInv PROVE PromptsTypeOK
  OBVIOUS
<1>1. Listed(retrieved, since) => Range(retrieved) \subseteq since
  BY DEF Listed, Range
<1>2. prompt.failed \in BOOLEAN
  <2>1. NoPrompt.failed \in BOOLEAN
    BY DEF NoPrompt
  <2> QED BY <2>1 DEF PromptInv, Sound
<1> QED BY <1>1, <1>2 DEF PromptInv, PromptsTypeOK

LEMMA PromptInvIsGrounded == PromptInv => PromptsAreGrounded
<1> SUFFICES ASSUME PromptInv, prompt # NoPrompt PROVE PromptsAreGrounded
  BY DEF PromptsAreGrounded
<1>1. Sound(prompt, retrieved, since, question)
  BY DEF PromptInv
<1> DEFINE context == AssembleContext(retrieved, prompt.of.history)
           quoted == prompt.chunks
           texts == [i \in DOMAIN quoted |-> Content[quoted[i]]]
<1>2. ~ prompt.failed => Fits(prompt)
  BY <1>1 DEF Sound, Fits, Estimate
<1> QED BY <1>1, <1>2, Zenon DEF Sound, PromptsAreGrounded

LEMMA PromptInvInit == PromptsInit => PromptInv
BY PromptConstants DEF PromptsInit, PromptInv

LEMMA PromptInvStep == PromptInv /\ [PromptsNext]_promptVars => PromptInv'
<1> SUFFICES ASSUME PromptInv, [PromptsNext]_promptVars PROVE PromptInv'
  OBVIOUS
<1>1. ASSUME NEW history \in Histories, AnswerWithPrompt(history) PROVE PromptInv'
  <2>1. question' = question /\ indexed' = indexed /\ prompts' \in 0..MaxPrompts
    BY <1>1, PromptConstants DEF PromptInv, AnswerWithPrompt
  <2>2. since' \subseteq ChunkIds /\ Listed(retrieved', since')
    <3>1. CASE retrieved # NoEntry
      <4>1. retrieved' = retrieved /\ since' = since
        BY <1>1, <3>1 DEF AnswerWithPrompt
      <4> QED BY <3>1, <4>1 DEF PromptInv
    <3>2. CASE retrieved = NoEntry
      <4>1. retrieved' \in Retrievals(indexed) /\ since' = indexed
        BY <1>1, <3>2 DEF AnswerWithPrompt
      <4>2. indexed \in SUBSET ChunkIds
        BY DEF PromptInv
      <4>3. Listed(retrieved', indexed)
        BY <4>1, <4>2, RetrievalsAre
      <4> QED BY <4>1, <4>2, <4>3
    <3> QED BY <3>1, <3>2
  <2>3. prompt' = Answer(retrieved', history)
    BY <1>1 DEF AnswerWithPrompt
  <2>4. Sound(prompt', retrieved', since', question)
    BY <2>2, <2>3, QuestionIs, AnswerIsSound
  <2>5. Sound(prompt', retrieved', since', question')
    BY <2>1, <2>4
  <2> QED BY <2>1, <2>2, <2>5 DEF PromptInv
<1>2. CASE ForgetRetrieval
  BY <1>2 DEF ForgetRetrieval, PromptInv
<1>3. CASE Reindex
  <2>1. indexed' \subseteq ChunkIds
    BY <1>3 DEF Reindex, PromptInv
  <2>2. /\ question' = question /\ retrieved' = retrieved /\ prompts' = prompts /\ prompt' = NoPrompt
        /\ since' = IF retrieved = NoEntry THEN {} ELSE since \cup indexed'
    BY <1>3 DEF Reindex
  <2>3. since' \subseteq ChunkIds
    BY <2>1, <2>2 DEF PromptInv
  <2>4. retrieved # NoEntry => Listed(retrieved, since')
    BY <2>2 DEF PromptInv, Listed
  <2> QED BY <2>1, <2>2, <2>3, <2>4 DEF PromptInv
<1>4. CASE UNCHANGED promptVars
  BY <1>4 DEF promptVars, PromptInv
<1> QED BY <1>1, <1>2, <1>3, <1>4 DEF PromptsNext

\* PromptsAreGrounded, for every limit on the chunks, the documents, the chunks
\* of a document and the tokens, and every order a search and a reranker put
\* them in: a prompt of the RAG engine fits, quotes only what the collection had,
\* no text twice, cites every document it quotes, and keeps the end of the
\* conversation (retriever.py, context.py, prompt.py, citations.py).
THEOREM PromptsAreAlwaysGrounded == Spec => []PromptsAreGrounded
<1>1. Init => PromptInv
  BY PartSteps, PromptInvInit
<1>2. PromptInv /\ [Next]_vars => PromptInv'
  BY PartSteps, PromptInvStep
<1>3. PromptInv => PromptsAreGrounded
  BY PromptInvIsGrounded
<1> QED BY <1>1, <1>2, <1>3, PTL DEF Spec

-----------------------------------------------------------------------------
(* The collection.                                                         *)

\* There is a report of the failures there were, of collectors that raised for
\* an answer that they got.
CollectionInv ==
    /\ device \in Devices
    /\ silent \subseteq SourceNames /\ broken \subseteq DOMAIN Misread
    /\ \A c \in broken : Misread[c] \notin silent
    /\ report = NoReport \/ report = BuildSnapshot

LEMMA CollectionInitInv == CollectionInit => CollectionInv
BY DEF CollectionInit, CollectionInv

LEMMA CollectionStep == CollectionInv /\ [Collect]_collectionVars => CollectionInv'
<1> SUFFICES ASSUME CollectionInv, [Collect]_collectionVars PROVE CollectionInv'
  OBVIOUS
<1>1. CASE Collect
  <2>1. PICK f \in Failures : /\ silent' = f \cap SourceNames
                              /\ broken' = f \cap DOMAIN Misread
                              /\ \A c \in broken' : Misread[c] \notin silent'
    BY <1>1 DEF Collect
  <2>2. device' = device /\ report' = BuildSnapshot'
    BY <1>1 DEF Collect
  <2>3. /\ device' \in Devices
        /\ silent' \subseteq SourceNames /\ broken' \subseteq DOMAIN Misread
    BY <2>1, <2>2 DEF CollectionInv
  <2>4. (report = BuildSnapshot)'
    BY <2>2
  <2> QED BY <2>1, <2>3, <2>4 DEF CollectionInv
<1>2. CASE UNCHANGED collectionVars
  <2>1. device' = device /\ silent' = silent /\ broken' = broken /\ report' = report
    BY <1>2 DEF collectionVars
  <2>2. BuildSnapshot' = BuildSnapshot
    BY <2>1 DEF BuildSnapshot, Section, Network, FromNetifd, FromKernel, Wifi, Radios, RadiosFromUci, Stations,
                NetworkStations, StatusTells, UciTells, Live, LiveInterfaces, LiveStations, StationsOnAir,
                Seen, Present, SeenOn, LeasesFrom, Clients, Dhcp, Firewall, PackageList, Identity, Storage,
                Cpu, Memory, NetworkStatus, RouteDevice, Speaks
  <2>3. (silent \subseteq SourceNames /\ broken \subseteq DOMAIN Misread /\ \A c \in broken : Misread[c] \notin silent)'
    BY <2>1 DEF CollectionInv
  <2>4. (report = NoReport \/ report = BuildSnapshot)'
    BY <2>1, <2>2 DEF CollectionInv
  <2>5. (device \in Devices)'
    BY <2>1 DEF CollectionInv
  <2> QED BY <2>3, <2>4, <2>5 DEF CollectionInv
<1> QED BY <1>1, <1>2

LEMMA CollectionTypes == CollectionInv => CollectionTypeOK
<1> SUFFICES ASSUME CollectionInv PROVE CollectionTypeOK
  OBVIOUS
<1>1. BuildSnapshot.errors = broken
  BY DEF BuildSnapshot
<1> QED BY <1>1 DEF CollectionInv, CollectionTypeOK

-----------------------------------------------------------------------------
(* What is told of a router, whatever fails in the collection.              *)

Levels == {"normal", "high", "critical"}

LEMMA DeviceIs ==
    ASSUME device \in Devices
    PROVE  /\ device.uplink \in {"none", "public", "private", "ipv6"}
           /\ device.radio \in {"none", "off", "down", "bridged", "odd", "apart"}
           /\ device.level \in Levels /\ device.plain \in BOOLEAN
           /\ device.plain <=> device.level = "normal"
           /\ device.level = "critical" <=> device.uplink = "none"
           /\ device.level = "normal" <=> device.uplink = "public"
BY DEF Devices, Levels

LEMMA AccessPointIs == AccessPoint(device) \in {"phy0-ap0", "guest"} /\ "phy0-ap0" \in Air
BY DEF AccessPoint, Air

\* The bridges' members: the wired port is in the LAN bridge, and so is the
\* access point unless it has a bridge of its own.
LEMMA MembersAre ==
    /\ "lan1" \in Members(device)["br-lan"]
    /\ device.radio \in {"bridged", "odd"} => AccessPoint(device) \in Members(device)["br-lan"]
    /\ "br-guest" \in DOMAIN Members(device) =>
          Members(device)["br-guest"] = {"phy0-ap0"} /\ device.radio = "apart"
BY DEF Members, AccessPoint

LEMMA NetworkMembers ==
    ASSUME NEW i \in Network, i.members # {}
    PROVE  /\ i.name \in {"loopback", "lan", "wan", "guests"}
           /\ i.device \in DOMAIN Members(device) /\ i.members = Members(device)[i.device]
<1>1. ASSUME NEW l \in Logical(device) PROVE l.name \in {"loopback", "lan", "wan", "guests"}
  BY DEF Logical
<1>2. CASE Speaks("dump")
  <2>1. i \in FromNetifd
    BY <1>2 DEF Network
  <2>2. \/ \E l \in Logical(device) :
              /\ i.name = l.name /\ i.device = l.device
              /\ i.members = {} \/ i.members = MembersOf(device, l.device)
        \/ i.members = {}
    BY <2>1 DEF FromNetifd
  <2>3. PICK l \in Logical(device) : i.name = l.name /\ i.device = l.device /\ i.members = MembersOf(device, l.device)
    BY <2>2
  <2> QED BY <1>1, <2>3 DEF MembersOf
<1>3. CASE ~ Speaks("dump")
  BY <1>3 DEF Network, FromKernel
<1> QED BY <1>2, <1>3

\* What the interfaces of a report say of a bridge: nothing, or what it has.
LEMMA BridgeIs ==
    ASSUME NEW network \in SUBSET Network, NEW bridge \in {"br-lan", "br-guest"}
    PROVE  LET members == UNION {i.members : i \in {j \in network : bridge \in {j.name, j.device}}}
           IN  members = {} \/ (bridge \in DOMAIN Members(device) /\ members = Members(device)[bridge])
<1> DEFINE I == {j \in network : bridge \in {j.name, j.device}}
           members == UNION {i.members : i \in I}
<1>1. ASSUME NEW i \in I PROVE i.members = {} \/ (bridge \in DOMAIN Members(device) /\ i.members = Members(device)[bridge])
  <2>1. i \in Network /\ bridge \in {i.name, i.device}
    OBVIOUS
  <2>2. i.members # {} => bridge = i.device
    BY <2>1, NetworkMembers
  <2> QED BY <2>1, <2>2, NetworkMembers
<1> HIDE DEF I
<1>2. members = {} \/ (bridge \in DOMAIN Members(device) /\ members = Members(device)[bridge])
  <2>1. CASE \A i \in I : i.members = {}
    BY <2>1
  <2>2. CASE \E i \in I : i.members # {}
    <3>1. bridge \in DOMAIN Members(device)
      BY <1>1, <2>2
    <3>2. members = Members(device)[bridge]
      BY <1>1, <2>2
    <3> QED BY <3>1, <3>2
  <2> QED BY <2>1, <2>2
<1> HIDE DEF members
<1> QED BY <1>2 DEF members, I

LEMMA MediumIs ==
    ASSUME NEW network \in SUBSET Network, NEW known \in SUBSET {"phy0-ap0", "guest"}
    PROVE  /\ InterfaceMedium("br-lan", known, network) # "wireless"
           /\ device.radio \in {"bridged", "odd"} => InterfaceMedium("br-lan", known, network) # "wired"
           /\ InterfaceMedium("br-guest", known, network) # "wired"
<1> DEFINE members(b) == UNION {i.members : i \in {j \in network : b \in {j.name, j.device}}}
           M(x) == MemberMedium(x, known)
<1>1. \A b : InterfaceMedium(b, known, network) =
                IF members(b) = {} THEN M(b) ELSE Mixed({M(x) : x \in members(b)})
  BY DEF InterfaceMedium
<1>2. /\ M("br-lan") = "unknown" /\ M("br-guest") = "unknown" /\ M("lan1") = "wired"
      /\ M("phy0-ap0") = "wireless" /\ M("guest") # "wired"
  BY DEF MemberMedium, Air, Wire
<1>3. members("br-lan") = {} \/ members("br-lan") = Members(device)["br-lan"]
  BY BridgeIs
<1>4. members("br-guest") = {} \/ members("br-guest") = {"phy0-ap0"}
  BY BridgeIs, MembersAre
<1> HIDE DEF members, M
<1>5. InterfaceMedium("br-lan", known, network) # "wireless"
  <2>1. CASE members("br-lan") = {}
    BY <1>1, <1>2, <2>1
  <2>2. CASE members("br-lan") # {}
    <3>1. "wired" \in {M(x) : x \in members("br-lan")}
      BY <1>2, <1>3, <2>2, MembersAre
    <3> QED BY <1>1, <2>2, <3>1 DEF Mixed
  <2> QED BY <2>1, <2>2
<1>6. ASSUME device.radio \in {"bridged", "odd"} PROVE InterfaceMedium("br-lan", known, network) # "wired"
  <2>1. CASE members("br-lan") = {}
    BY <1>1, <1>2, <2>1
  <2>2. CASE members("br-lan") # {}
    <3>1. M(AccessPoint(device)) \in {M(x) : x \in members("br-lan")}
      BY <1>3, <1>6, <2>2, MembersAre
    <3>2. M(AccessPoint(device)) # "wired"
      BY <1>2, AccessPointIs
    <3> QED BY <1>1, <2>2, <3>1, <3>2 DEF Mixed
  <2> QED BY <2>1, <2>2
<1>7. InterfaceMedium("br-guest", known, network) # "wired"
  <2>1. CASE members("br-guest") = {}
    BY <1>1, <1>2, <2>1
  <2>2. CASE members("br-guest") = {"phy0-ap0"}
    <3>1. "wireless" \in {M(x) : x \in members("br-guest")}
      BY <1>2, <2>2
    <3> QED BY <1>1, <2>2, <3>1 DEF Mixed
  <2> QED BY <1>4, <2>1, <2>2
<1> QED BY <1>5, <1>6, <1>7

LEMMA StationsAre ==
    \A s \in Stations : s.mac = "phone" /\ s.interface = AccessPoint(device) /\ OnAir(device)
<1>1. Stations = {} \/ Stations = {[mac |-> "phone", interface |-> AccessPoint(device)]}
  BY Zenon DEF Stations
<1>2. Stations # {} => OnAir(device)
  BY Zenon DEF Stations
<1> QED BY <1>1, <1>2

LEMMA SeenAre ==
    ASSUME NEW source, NEW e \in Seen(source)
    PROVE  /\ e.interface = SeenOn(e.mac) /\ e.mac \in {"desk", "phone"}
           /\ e.mac = "phone" => OnAir(device)
BY DEF Seen, Present

\* Nobody is called what they are not.
LEMMA MediaAreRight ==
    ASSUME CollectionInv, report # NoReport, NEW c \in DOMAIN report.media
    PROVE  /\ report.media[c] = "wireless" => c = "phone"
           /\ report.media[c] = "wired" => c = "desk"
<1> DEFINE network == Section("network", Network, {})
           stations == Section("wifi", Wifi, NoWifi).clients
           seen == Seen("leases") \cup Section("arp", Seen("arp"), {}) \cup Section("neighbors", Seen("neighbors"), {})
           known == LiveInterfaces \cup {s.interface : s \in stations}
           media(mac) == {InterfaceMedium(e.interface, known, network) : e \in {f \in seen : f.mac = mac}}
           medium(mac) == IF mac \in {s.mac : s \in stations} \/ "wireless" \in media(mac) THEN "wireless"
                          ELSE IF media(mac) = {"wired"} THEN "wired" ELSE "unknown"
<1>1. report.media = [mac \in {s.mac : s \in stations} \cup {e.mac : e \in seen} |-> medium(mac)]
  <2>1. report = BuildSnapshot
    BY DEF CollectionInv
  <2>2. report.media = ClassifyClientMedia(stations, seen, LiveInterfaces, network)
    BY <2>1 DEF BuildSnapshot
  <2> QED BY <2>2 DEF ClassifyClientMedia
<1>2. network \in SUBSET Network
  BY DEF Section
<1>3. \A s \in stations : s.mac = "phone" /\ s.interface = AccessPoint(device) /\ OnAir(device)
  <2>1. stations = Stations \/ stations = {}
    BY DEF Section, Wifi, NoWifi
  <2> QED BY <2>1, StationsAre
<1>4. known \in SUBSET {"phy0-ap0", "guest"}
  <2>1. LiveInterfaces \subseteq {AccessPoint(device)}
    BY DEF LiveInterfaces
  <2> QED BY <1>3, <2>1, AccessPointIs
<1>5. ASSUME NEW e \in seen
      PROVE  /\ e.interface = SeenOn(e.mac) /\ e.mac \in {"desk", "phone"}
             /\ e.mac = "phone" => OnAir(device)
  BY SeenAre DEF Section
<1> HIDE DEF network, stations, seen, known, media
<1>6. c \in {"desk", "phone"} /\ report.media[c] = medium(c)
  BY <1>1, <1>3, <1>5
<1>7. "br-lan" = SeenOn("desk") /\ (c = "phone" /\ device.radio # "apart" => SeenOn(c) = "br-lan")
      /\ (device.radio = "apart" => SeenOn("phone") = "br-guest")
  BY DEF SeenOn
<1>8. media("desk") \subseteq {InterfaceMedium("br-lan", known, network)}
  BY <1>5, <1>7 DEF media
<1>9. "wireless" \notin media("desk")
  BY <1>2, <1>4, <1>8, MediumIs
<1>10. report.media[c] = "wireless" => c = "phone"
  BY <1>3, <1>6, <1>9
<1>11. ASSUME c = "phone", report.media[c] = "wired" PROVE FALSE
  <2>1. media("phone") = {"wired"}
    BY <1>6, <1>11
  <2>2. "wired" \in media("phone")
    BY <2>1
  <2>3. PICK e \in seen : e.mac = "phone" /\ "wired" = InterfaceMedium(e.interface, known, network)
    BY <2>2 DEF media
  <2>4. OnAir(device) /\ e.interface = SeenOn("phone")
    BY <1>5, <2>3
  <2>5. CASE device.radio = "apart"
    BY <1>2, <1>4, <1>7, <2>3, <2>4, <2>5, MediumIs
  <2>6. CASE device.radio \in {"bridged", "odd"}
    BY <1>2, <1>4, <1>7, <1>11, <2>3, <2>4, <2>6, MediumIs
  <2> QED BY <2>4, <2>5, <2>6 DEF OnAir
<1> QED BY <1>6, <1>10, <1>11

\* What identifies somebody is told with the sections about clients only, log
\* messages with those about logs.
LEMMA IdentifyingIs ==
    ASSUME NEW r, NEW sections
    PROVE  LET context == BuildFocusedContext(r, sections)
           IN  /\ context.identifying \cap {"mac", "name"} # {} => sections \cap ClientSections # {}
               /\ "messages" \in context.identifying => "logs" \in sections
<1> DEFINE given == {s \in sections : ~Absent(r, s)}
           media == sections \cap ClientSections # {} /\ DOMAIN r.media # {}
           told == (UNION {Prune[s] : s \in given \cap DOMAIN Prune}) \cup (IF media THEN {"mac"} ELSE {})
<1>1. BuildFocusedContext(r, sections).identifying = told
  BY DEF BuildFocusedContext
<1>2. \A s \in DOMAIN Prune : /\ Prune[s] \cap {"mac", "name"} # {} => s \in ClientSections
                              /\ "messages" \in Prune[s] => s = "logs"
  BY DEF Prune, ClientSections
<1>3. given \subseteq sections
  OBVIOUS
<1> HIDE DEF given
<1>4. told \cap {"mac", "name"} # {} => sections \cap ClientSections # {}
  <2> SUFFICES ASSUME NEW x \in told, x \in {"mac", "name"} PROVE sections \cap ClientSections # {}
    OBVIOUS
  <2>1. CASE media
    BY <2>1
  <2>2. CASE ~ media
    <3>1. PICK s \in given \cap DOMAIN Prune : x \in Prune[s]
      BY <2>2
    <3> QED BY <1>2, <1>3, <3>1
  <2> QED BY <2>1, <2>2
<1>5. "messages" \in told => "logs" \in sections
  <2> SUFFICES ASSUME "messages" \in told PROVE "logs" \in sections
    OBVIOUS
  <2>0. "messages" \notin (IF media THEN {"mac"} ELSE {})
    OBVIOUS
  <2> HIDE DEF media
  <2>1. PICK s \in given \cap DOMAIN Prune : "messages" \in Prune[s]
    BY <2>0, Zenon
  <2> QED BY <1>2, <1>3, <2>1
<1> HIDE DEF told
<1> QED BY <1>1, <1>4, <1>5

LEMMA ClientsFollow == CollectionInv => ClientsAreRight
<1> SUFFICES ASSUME CollectionInv, report # NoReport PROVE ClientsAreRight
  BY DEF ClientsAreRight
<1>1. \A c \in DOMAIN report.media : /\ report.media[c] = "wireless" => c = "phone"
                                     /\ report.media[c] = "wired" => c = "desk"
  BY MediaAreRight
<1>2. \A sections \in SectionsAsked :
         LET context == BuildFocusedContext(report, sections)
         IN  /\ context.identifying \cap {"mac", "name"} # {} => sections \cap ClientSections # {}
             /\ "messages" \in context.identifying => "logs" \in sections
  BY IdentifyingIs
<1> QED BY <1>1, <1>2, Zenon DEF ClientsAreRight

\* The fields of a report.
LEMMA ReportIs ==
    ASSUME CollectionInv, report # NoReport
    PROVE  /\ report.errors = broken
           /\ report.cpu = IF "cpu" \in broken THEN {} ELSE {Cpu}
           /\ report.memory = IF "memory" \in broken THEN {} ELSE {Memory}
           /\ report.storage = Section("storage", Storage, {})
           /\ report.network = Section("network", Network, {})
           /\ report.status = IF "network" \in broken THEN {} ELSE {NetworkStatus}
           /\ report.firewall = Section("firewall", Firewall, {})
           /\ report.wifi = Section("wifi", Wifi, NoWifi)
           /\ report.clients = Section("clients", Clients, {})
           /\ report.arp = Section("arp", Seen("arp"), {})
           /\ report.dhcp = Section("dhcp", Dhcp, [leases |-> {}, dns |-> {}])
           /\ report.kernel = Section("kernel", Identity, FALSE)
<1>1. report = BuildSnapshot
  BY DEF CollectionInv
<1> QED BY <1>1 DEF BuildSnapshot

\* A collection in which nothing fails.
Well == silent = {} /\ broken = {}

LEMMA AllSpeak == ASSUME Well PROVE \A s : Speaks(s)
BY DEF Well, Speaks

LEMMA NothingLost == ASSUME Well PROVE \A name, a, b : Section(name, a, b) = a
BY DEF Well, Section

\* What of a collector's answer depends on which sources.
StatSpeaks == Speaks("proc stat")
LoadSpeaks == Speaks("system info") \/ Speaks("loadavg")
MemorySpeaks == Speaks("meminfo") \/ Speaks("system info")

LEMMA CpuIs ==
    Cpu = [usage |-> IF StatSpeaks THEN Percent("cpu", device.level) ELSE Unknown,
           cores |-> IF Speaks("cpuinfo") THEN Cores ELSE 1,
           load |-> IF LoadSpeaks THEN LoadOf(device.level) ELSE 0]
BY Zenon DEF Cpu, StatSpeaks, LoadSpeaks

LEMMA MemoryIs ==
    Memory = IF MemorySpeaks THEN [total |-> 100, used |-> Percent("memory", device.level)]
             ELSE [total |-> 0, used |-> 0]
BY Zenon DEF Memory, MemorySpeaks

LEMMA PercentIs ==
    ASSUME device \in Devices
    PROVE  /\ \A kind \in {"cpu", "memory"} : Percent(kind, device.level) =
                 IF device.level = "normal" THEN 20 ELSE IF device.level = "high" THEN 75 ELSE 90
           /\ Percent("storage", device.level) =
                 IF device.level = "normal" THEN 20 ELSE IF device.level = "high" THEN 85 ELSE 95
           /\ LoadOf(device.level) =
                 IF device.level = "normal" THEN 2 ELSE IF device.level = "high" THEN 4 ELSE 8
<1>1. device.level = "normal" \/ device.level = "high" \/ device.level = "critical"
  BY DeviceIs DEF Levels
<1>2. ASSUME NEW kind \in {"cpu", "memory"}
      PROVE  Percent(kind, device.level) =
                IF device.level = "normal" THEN 20 ELSE IF device.level = "high" THEN 75 ELSE 90
  BY <1>1 DEF Percent
<1>3. Percent("storage", device.level) =
         IF device.level = "normal" THEN 20 ELSE IF device.level = "high" THEN 85 ELSE 95
  BY <1>1 DEF Percent
<1>4. LoadOf(device.level) =
         IF device.level = "normal" THEN 2 ELSE IF device.level = "high" THEN 4 ELSE 8
  BY <1>1 DEF LoadOf, Cores
<1> QED BY <1>2, <1>3, <1>4

LEMMA WellSpeaks == ASSUME Well PROVE StatSpeaks /\ LoadSpeaks /\ MemorySpeaks
BY AllSpeak, Zenon DEF StatSpeaks, LoadSpeaks, MemorySpeaks

\* An interface of netifd is one it knows, or a port of a bridge; without netifd
\* nothing is known of them but the addresses.
LEMMA NetworkIs ==
    ASSUME NEW i \in Network
    PROVE  /\ i.proto \in WanProtos => device.uplink # "none" /\ i.addresses = Uplinks(device)
           /\ i.told /\ i.addresses # {} => \E l \in Logical(device) : i.addresses = AddressesOf(device, l.device)
<1>1. CASE Speaks("dump")
  <2>1. i \in FromNetifd
    BY <1>1 DEF Network
  <2>2. \/ \E l \in Logical(device) : i.proto = l.proto /\ i.addresses = AddressesOf(device, l.device)
        \/ i.proto = "none" /\ i.addresses = {}
    BY <2>1 DEF FromNetifd
  <2>3. \A l \in Logical(device) : l.proto \in WanProtos => l.device = "eth0" /\ device.uplink # "none"
    BY DEF Logical, WanProtos
  <2>4. "none" \notin WanProtos
    BY DEF WanProtos
  <2> QED BY <2>2, <2>3, <2>4 DEF AddressesOf
<1>2. CASE ~ Speaks("dump")
  <2>1. i \in FromKernel /\ Speaks("addresses")
    BY <1>2 DEF Network, FromKernel
  <2>2. i.proto = "none" /\ i.told = FALSE
    BY <2>1 DEF FromKernel
  <2> QED BY <2>2 DEF WanProtos
<1> QED BY <1>1, <1>2

LEMMA NetifdKnows ==
    ASSUME Speaks("dump"), NEW l \in Logical(device)
    PROVE  \E i \in Network : /\ i.name = l.name /\ i.device = l.device /\ i.proto = l.proto /\ i.told = TRUE
                              /\ i.addresses = AddressesOf(device, l.device) /\ i.traffic = Speaks("devices")
<1> DEFINE i == [name |-> l.name, device |-> l.device, proto |-> l.proto,
                 addresses |-> AddressesOf(device, l.device), told |-> TRUE, traffic |-> Speaks("devices"),
                 members |-> IF Speaks("devices") THEN MembersOf(device, l.device) ELSE {}]
<1>1. i \in FromNetifd
  BY DEF FromNetifd
<1>2. i \in Network
  BY <1>1 DEF Network
<1> QED BY <1>2

-----------------------------------------------------------------------------
(* What data there is.                                                     *)

\* What is told of some data is right.
Right(told, really) ==
    /\ told = "available" => really
    /\ told \in {"not_available", "unknown"} => ~ really \/ ~ Well
    /\ told = "error" => broken # {}

LEMMA ErroredIs == ASSUME CollectionInv, report # NoReport, NEW c, c \in report.errors PROVE broken # {}
BY ReportIs

LEMMA LoadIsTold ==
    ASSUME CollectionInv, report # NoReport
    PROVE  LET told == BuildAvailabilityManifest(report)
           IN  /\ Right(told.system_info, TRUE) /\ Right(told.cpu, TRUE) /\ Right(told.memory, TRUE)
               /\ Right(told.disk, TRUE)
<1> DEFINE told == BuildAvailabilityManifest(report)
           errored(c) == c \in report.errors
           usage == \E c \in report.cpu : c.usage # Unknown
<1>1. /\ told.system_info = Availability(errored("kernel"), report.kernel, FALSE)
      /\ told.cpu = Availability(errored("cpu"), usage, report.cpu # {})
      /\ told.memory = Availability(errored("memory"), report.memory # {}, FALSE)
      /\ told.disk = Availability(errored("storage"), report.storage # {}, FALSE)
  BY DEF BuildAvailabilityManifest
<1>2. \A c : errored(c) \in BOOLEAN /\ (errored(c) => broken # {})
  BY ErroredIs
<1>3. report.kernel \in BOOLEAN /\ (Well => report.kernel)
  BY ReportIs, AllSpeak, NothingLost DEF Section, Identity, Speaks
<1>4. Well => usage
  <2> SUFFICES ASSUME Well PROVE usage
    OBVIOUS
  <2>1. report.cpu = {Cpu}
    BY ReportIs DEF Well
  <2>2. Cpu.usage = Percent("cpu", device.level)
    BY CpuIs, WellSpeaks
  <2>3. device \in Devices
    BY DEF CollectionInv
  <2>4. Cpu.usage # Unknown
    BY <2>2, <2>3, PercentIs DEF Unknown
  <2> QED BY <2>1, <2>4
<1>5. Well => report.memory # {} /\ report.storage # {}
  BY ReportIs, AllSpeak DEF Well, Section, Storage
<1> HIDE DEF told, errored, usage
<1>6. Right(told.system_info, TRUE)
  BY <1>1, <1>2, <1>3 DEF Right, Availability
<1>7. Right(told.cpu, TRUE)
  <2>1. usage \in BOOLEAN /\ (report.cpu # {}) \in BOOLEAN
    BY DEF usage
  <2> QED BY <1>1, <1>2, <1>4, <2>1 DEF Right, Availability
<1>8. Right(told.memory, TRUE)
  BY <1>1, <1>2, <1>5 DEF Right, Availability
<1>9. Right(told.disk, TRUE)
  BY <1>1, <1>2, <1>5 DEF Right, Availability
<1> QED BY <1>6, <1>7, <1>8, <1>9 DEF told

LEMMA UplinksAre ==
    ASSUME device \in Devices, NEW a \in Uplinks(device)
    PROVE  /\ a.family = "ipv4" => device.uplink \in {"public", "private"}
           /\ a = Address("ipv4", "public") => device.uplink = "public"
<1>1. device.uplink \in {"public", "private", "ipv6"}
  BY DeviceIs DEF Uplinks
<1>2. a = IF device.uplink = "ipv6" THEN Address("ipv6", "public") ELSE Address("ipv4", device.uplink)
  BY <1>1 DEF Uplinks
<1> QED BY <1>1, <1>2 DEF Address

LEMMA PublicIsTold ==
    ASSUME CollectionInv, report # NoReport
    PROVE  Right(BuildAvailabilityManifest(report).public_ip, device.uplink \in {"public", "private"})
<1> DEFINE told == BuildAvailabilityManifest(report).public_ip
           errored == "network" \in report.errors
           wanV4 == \E i \in report.network : i.proto \in WanProtos /\ \E a \in i.addresses : a.family = "ipv4"
           publicV4 == \E i \in report.network : i.told /\ Address("ipv4", "public") \in i.addresses
           guessed == OfFamily(report, "ipv4") # {}
           really == device.uplink \in {"public", "private"}
<1>1. told = Availability(errored, publicV4 \/ wanV4, guessed)
  BY DEF BuildAvailabilityManifest
<1>2. errored => broken # {}
  BY ErroredIs
<1>3. device \in Devices /\ report.network \subseteq Network
  BY ReportIs DEF Section, CollectionInv
<1>4. wanV4 => really
  <2> SUFFICES ASSUME NEW i \in report.network, i.proto \in WanProtos, NEW a \in i.addresses, a.family = "ipv4"
               PROVE  really
    OBVIOUS
  <2>1. a \in Uplinks(device)
    BY <1>3, NetworkIs
  <2> QED BY <1>3, <2>1, UplinksAre
<1>5. publicV4 => really
  <2> SUFFICES ASSUME NEW i \in report.network, i.told, Address("ipv4", "public") \in i.addresses
               PROVE  really
    OBVIOUS
  <2>1. PICK l \in Logical(device) : i.addresses = AddressesOf(device, l.device)
    BY <1>3, NetworkIs
  <2>2. Address("ipv4", "public") # Address("ipv4", "private")
    BY DEF Address
  <2>3. Address("ipv4", "public") \in Uplinks(device)
    BY <2>1, <2>2 DEF AddressesOf
  <2> QED BY <1>3, <2>3, UplinksAre
<1>6. ASSUME Well, really PROVE wanV4
  <2> DEFINE l == [name |-> "wan", device |-> "eth0", proto |-> "dhcp"]
  <2>1. l \in Logical(device)
    BY <1>6 DEF Logical
  <2>2. report.network = Network /\ Speaks("dump")
    BY <1>6, ReportIs, NothingLost, AllSpeak
  <2>3. PICK i \in Network : i.proto = l.proto /\ i.addresses = AddressesOf(device, l.device)
    BY <2>1, <2>2, NetifdKnows
  <2>4. i.proto \in WanProtos /\ i.addresses = Uplinks(device)
    BY <2>3 DEF AddressesOf, WanProtos
  <2>5. Address("ipv4", device.uplink) \in Uplinks(device)
    BY <1>6 DEF Uplinks
  <2>6. Address("ipv4", device.uplink).family = "ipv4"
    BY DEF Address
  <2> QED BY <2>2, <2>4, <2>5, <2>6
<1> HIDE DEF told, errored, wanV4, publicV4, guessed, really
<1>7. Right(told, really)
  BY <1>1, <1>2, <1>4, <1>5, <1>6 DEF Right, Availability
<1> QED BY <1>7 DEF told, really

LEMMA DnsIsTold ==
    ASSUME CollectionInv, report # NoReport
    PROVE  Right(BuildAvailabilityManifest(report).dns, TRUE)
<1> DEFINE told == BuildAvailabilityManifest(report).dns
           errored == "network_status" \in report.errors
           dns == IF \E s \in report.status : s.dns # {} THEN TRUE ELSE report.dhcp.dns # {}
<1>1. told = Availability(errored, dns, FALSE)
  BY DEF BuildAvailabilityManifest
<1>2. errored => broken # {}
  BY ErroredIs
<1>3. ASSUME Well PROVE dns
  <2>1. report.status = {NetworkStatus}
    BY <1>3, ReportIs DEF Well
  <2>2. NetworkStatus.dns # {}
    <3> DEFINE resolv == Speaks("resolv.conf")  dump == Speaks("dump")
    <3>1. NetworkStatus.dns = IF dump /\ device.uplink # "none" THEN {"upstream"}
                              ELSE IF resolv THEN {"router"} ELSE {}
      BY DEF NetworkStatus
    <3>2. resolv
      BY <1>3, AllSpeak
    <3> HIDE DEF resolv, dump
    <3> QED BY <3>1, <3>2
  <2> QED BY <2>1, <2>2
<1> HIDE DEF told, errored, dns
<1>4. Right(told, TRUE)
  BY <1>1, <1>2, <1>3 DEF Right, Availability
<1> QED BY <1>4 DEF told

LEMMA ClientsAreTold ==
    ASSUME CollectionInv, report # NoReport
    PROVE  Right(BuildAvailabilityManifest(report).connected_clients, TRUE)
<1> DEFINE told == BuildAvailabilityManifest(report).connected_clients
           errored == "clients" \in report.errors \/ "arp" \in report.errors
           found == report.clients # {} \/ report.arp # {} \/ report.wifi.clients # {}
<1>1. told = Availability(errored, found, FALSE)
  BY DEF BuildAvailabilityManifest
<1>2. errored => broken # {}
  BY ErroredIs
<1>3. ASSUME Well PROVE found
  <2>1. report.arp = Seen("arp") /\ Speaks("arp")
    BY <1>3, ReportIs, NothingLost, AllSpeak
  <2> QED BY <2>1 DEF Seen, Present
<1> HIDE DEF told, errored, found
<1>4. Right(told, TRUE)
  BY <1>1, <1>2, <1>3 DEF Right, Availability
<1> QED BY <1>4 DEF told

LEMMA RadiosAre ==
    \A x \in Radios : x.stations = 0 \/ (x.stations = 1 /\ OnAir(device))
<1>1. StationsOnAir = 0 \/ (StationsOnAir = 1 /\ OnAir(device))
  BY DEF StationsOnAir
<1>2. LiveStations = 0 \/ LiveStations = StationsOnAir
  BY DEF LiveStations
<1>3. \A x \in Radios : x.stations = StationsOnAir \/ x.stations = LiveStations
  BY DEF Radios, RadiosFromUci
<1> QED BY <1>1, <1>2, <1>3

LEMMA WifiIs ==
    ASSUME CollectionInv, report # NoReport
    PROVE  /\ "wifi" \in broken => report.wifi.radios = {} /\ report.wifi.clients = {}
           /\ "wifi" \notin broken => report.wifi.radios = Radios /\ report.wifi.clients = Stations
BY ReportIs DEF Section, Wifi, NoWifi

LEMMA StatusSpeaks == ASSUME Well, device.radio # "none" PROVE StatusTells
BY AllSpeak, Zenon DEF StatusTells

LEMMA WifiIsTold ==
    ASSUME CollectionInv, report # NoReport
    PROVE  Right(BuildAvailabilityManifest(report).wifi_clients, OnAir(device))
<1> DEFINE told == BuildAvailabilityManifest(report).wifi_clients
           errored == "wifi" \in report.errors
           stations == report.wifi.clients # {} \/ \E x \in report.wifi.radios : x.stations > 0
<1>1. told = Availability(errored, stations, FALSE)
  BY DEF BuildAvailabilityManifest
<1>2. errored => broken # {}
  BY ErroredIs
<1>3. ASSUME stations PROVE OnAir(device)
  <2>1. CASE report.wifi.clients # {}
    <3>1. Stations # {}
      BY <2>1, WifiIs
    <3> QED BY <3>1, StationsAre
  <2>2. CASE \E x \in report.wifi.radios : x.stations > 0
    <3>1. PICK x \in Radios : x.stations > 0
      BY <2>2, WifiIs
    <3> QED BY <3>1, RadiosAre
  <2> QED BY <1>3, <2>1, <2>2
<1>4. ASSUME Well, OnAir(device) PROVE stations
  <2>1. StatusTells
    <3>1. device.radio # "none"
      BY <1>4 DEF OnAir
    <3> QED BY <1>4, <3>1, StatusSpeaks
  <2>2. [mac |-> "phone", interface |-> AccessPoint(device)] \in Stations
    <3>1. Stations = {[mac |-> "phone", interface |-> AccessPoint(device)]}
      BY <1>4, <2>1, Zenon DEF Stations
    <3> QED BY <3>1
  <2>3. report.wifi.clients = Stations
    BY <1>4, WifiIs DEF Well
  <2> QED BY <2>2, <2>3
<1> HIDE DEF told, errored, stations
<1>5. Right(told, OnAir(device))
  BY <1>1, <1>2, <1>3, <1>4 DEF Right, Availability
<1> QED BY <1>5 DEF told

LEMMA FirewallIsTold ==
    ASSUME CollectionInv, report # NoReport
    PROVE  Right(BuildAvailabilityManifest(report).firewall_rules, ~ device.plain)
<1> DEFINE told == BuildAvailabilityManifest(report).firewall_rules
           errored == "firewall" \in report.errors
           found == report.firewall # {}
           uci == Speaks("uci firewall")
<1>1. told = Availability(errored, found, FALSE)
  BY DEF BuildAvailabilityManifest
<1>2. errored => broken # {}
  BY ErroredIs
<1>3. Firewall = IF uci /\ ~ device.plain THEN {"rule"} ELSE {}
  BY Zenon DEF Firewall
<1>4. Well => uci
  BY AllSpeak
<1> HIDE DEF uci
<1>5. found => ~ device.plain
  BY <1>3, ReportIs DEF Section
<1>6. Well /\ ~ device.plain => found
  BY <1>3, <1>4, ReportIs, NothingLost
<1> HIDE DEF told, errored, found
<1>7. Right(told, ~ device.plain)
  BY <1>1, <1>2, <1>5, <1>6 DEF Right, Availability
<1> QED BY <1>7 DEF told

LEMMA TrafficIsTold ==
    ASSUME CollectionInv, report # NoReport
    PROVE  Right(BuildAvailabilityManifest(report).traffic, TRUE)
<1> DEFINE told == BuildAvailabilityManifest(report).traffic
           errored == "network" \in report.errors
           found == \E i \in report.network : i.traffic
<1>1. told = Availability(errored, found, FALSE)
  BY DEF BuildAvailabilityManifest
<1>2. errored => broken # {}
  BY ErroredIs
<1>3. ASSUME Well PROVE found
  <2>1. report.network = Network /\ Speaks("dump") /\ Speaks("devices")
    BY <1>3, ReportIs, NothingLost, AllSpeak
  <2>2. [name |-> "lan", device |-> "br-lan", proto |-> "static"] \in Logical(device)
    BY DEF Logical
  <2> QED BY <2>1, <2>2, NetifdKnows
<1> HIDE DEF told, errored, found
<1>4. Right(told, TRUE)
  BY <1>1, <1>2, <1>3 DEF Right, Availability
<1> QED BY <1>4 DEF told

LEMMA ManifestIsRight ==
    ASSUME CollectionInv, report # NoReport, NEW c \in DOMAIN Really
    PROVE  Right(BuildAvailabilityManifest(report)[c], Really[c])
<1>1. c \in {"system_info", "cpu", "memory", "disk", "public_ip", "dns", "connected_clients", "wifi_clients",
             "firewall_rules", "traffic"}
  BY DEF Really
<1>2. /\ Really.system_info = TRUE /\ Really.cpu = TRUE /\ Really.memory = TRUE /\ Really.disk = TRUE
      /\ Really.public_ip = (device.uplink \in {"public", "private"})
      /\ Really.dns = TRUE /\ Really.connected_clients = TRUE /\ Really.wifi_clients = OnAir(device)
      /\ Really.firewall_rules = ~ device.plain /\ Really.traffic = TRUE
  BY DEF Really
<1> QED BY <1>1, <1>2, LoadIsTold, PublicIsTold, DnsIsTold, ClientsAreTold, WifiIsTold, FirewallIsTold,
           TrafficIsTold

-----------------------------------------------------------------------------
(* What is diagnosed.                                                      *)

Excused(f) == Troubled(f) \/ Excuses(f)

LEMMA GradeIs ==
    ASSUME NEW subject, NEW v \in Int, NEW w \in Int, NEW c \in Int, NEW f \in Grade(subject, v, w, c)
    PROVE  /\ f.subject = subject
           /\ (f.severity = "critical" /\ v >= c) \/ (f.severity = "warning" /\ w <= v /\ v < c)
BY DEF Grade, Finding

LEMMA TroubledIs ==
    ASSUME NEW f
    PROVE  /\ f.subject \in {"cpu", "memory", "storage", "load"} =>
                 (Troubled(f) <=> device.level = (IF f.severity = "critical" THEN "critical" ELSE "high"))
           /\ f.subject = "wan" => (Troubled(f) <=> device.uplink = "none")
           /\ f.subject = "wifi" => (Troubled(f) <=> device.radio = "none")
<1>1. ASSUME f.subject \in {"cpu", "memory", "storage", "load"}
      PROVE  Troubled(f) <=> device.level = (IF f.severity = "critical" THEN "critical" ELSE "high")
  BY <1>1 DEF Troubled
<1>2. ASSUME f.subject = "wan" PROVE Troubled(f) <=> device.uplink = "none"
  BY <1>2 DEF Troubled
<1>3. ASSUME f.subject = "wifi" PROVE Troubled(f) <=> device.radio = "none"
  BY <1>3 DEF Troubled
<1> QED BY <1>1, <1>2, <1>3

LEMMA ExcusesAre ==
    ASSUME NEW f
    PROVE  /\ f.subject = "load" => (Excuses(f) <=> "cpuinfo" \in silent)
           /\ f.subject = "wan" => (Excuses(f) <=> "dump" \in silent)
           /\ f.subject \in {"offline", "unknown"} => (Excuses(f) <=> ~ Well)
<1>1. ASSUME f.subject = "load" PROVE Excuses(f) <=> "cpuinfo" \in silent
  BY <1>1 DEF Excuses
<1>2. ASSUME f.subject = "wan" PROVE Excuses(f) <=> "dump" \in silent
  BY <1>2 DEF Excuses
<1>3. ASSUME f.subject \in {"offline", "unknown"} PROVE Excuses(f) <=> ~ Well
  BY <1>3 DEF Excuses, Well
<1> QED BY <1>1, <1>2, <1>3

\* What a summary says of the load and the memory.
LEMMA SummaryIs ==
    ASSUME CollectionInv, report # NoReport
    PROVE  LET context == BuildContext(report)
           IN  /\ context.system = report.kernel /\ context.storage = report.storage
               /\ context.network = report.network /\ context.wifi.radios = report.wifi.radios
               /\ context.wifi.stations = (\E x \in report.wifi.radios : x.stations > 0)
               /\ context.cpu = IF "cpu" \in broken THEN [usage |-> Unknown, cores |-> 0, load |-> 0] ELSE Cpu
               /\ context.memory =
                     IF "memory" \in broken THEN NoMemory
                     ELSE [percent |-> IF Memory.total = 0 THEN 0 ELSE (Memory.used * 100) \div Memory.total]
<1> DEFINE context == BuildContext(report)
           cpu == CHOOSE c \in report.cpu : TRUE
           m == CHOOSE x \in report.memory : TRUE
<1>1. /\ context.system = report.kernel /\ context.storage = report.storage
      /\ context.network = report.network /\ context.wifi.radios = report.wifi.radios
      /\ context.wifi.stations = (\E x \in report.wifi.radios : x.stations > 0)
      /\ context.cpu = IF report.cpu = {} THEN [usage |-> Unknown, cores |-> 0, load |-> 0] ELSE cpu
      /\ context.memory = IF report.memory = {} THEN NoMemory
                          ELSE [percent |-> IF m.total = 0 THEN 0 ELSE (m.used * 100) \div m.total]
  BY DEF BuildContext
<1>2. /\ report.cpu = IF "cpu" \in broken THEN {} ELSE {Cpu}
      /\ report.memory = IF "memory" \in broken THEN {} ELSE {Memory}
  BY ReportIs
<1>3. "cpu" \notin broken => cpu = Cpu
  <2>1. "cpu" \notin broken => cpu \in report.cpu
    BY <1>2
  <2> HIDE DEF cpu
  <2> QED BY <1>2, <2>1
<1>4. "memory" \notin broken => m = Memory
  <2>1. "memory" \notin broken => m \in report.memory
    BY <1>2
  <2> HIDE DEF m
  <2> QED BY <1>2, <2>1
<1>5. context.cpu = IF "cpu" \in broken THEN [usage |-> Unknown, cores |-> 0, load |-> 0] ELSE Cpu
  <2> HIDE DEF cpu, context
  <2> QED BY <1>1, <1>2, <1>3
<1>6. context.memory =
         IF "memory" \in broken THEN NoMemory
         ELSE [percent |-> IF Memory.total = 0 THEN 0 ELSE (Memory.used * 100) \div Memory.total]
  <2>1. CASE "memory" \in broken
    BY <1>1, <1>2, <2>1
  <2>2. CASE "memory" \notin broken
    <3>1. report.memory # {} /\ m = Memory
      BY <1>2, <1>4, <2>2
    <3> HIDE DEF m, context
    <3> QED BY <1>1, <2>2, <3>1, Zenon
  <2> QED BY <2>1, <2>2
<1> HIDE DEF context
<1> QED BY <1>1, <1>5, <1>6 DEF context

LEMMA CpuValues ==
    ASSUME CollectionInv, report # NoReport
    PROVE  LET cpu == BuildContext(report).cpu
           IN  /\ cpu.usage \in Int /\ cpu.cores \in Int /\ cpu.load \in Int
               /\ cpu.usage >= 75 => device.level # "normal"
               /\ cpu.usage >= 90 <=> cpu.usage >= 75 /\ device.level = "critical"
               /\ cpu.cores > 0 /\ "cpuinfo" \notin silent => cpu.cores = 4
               /\ cpu.load = 0 \/ cpu.load = LoadOf(device.level)
<1> DEFINE cpu == BuildContext(report).cpu
<1>1. CASE "cpu" \in broken
  <2>1. cpu = [usage |-> Unknown, cores |-> 0, load |-> 0]
    BY <1>1, SummaryIs
  <2> HIDE DEF cpu
  <2>2. cpu.usage = -1 /\ cpu.cores = 0 /\ cpu.load = 0
    BY <2>1 DEF Unknown
  <2> QED BY <2>2 DEF cpu
<1>2. CASE "cpu" \notin broken
  <2>1. cpu = Cpu
    BY <1>2, SummaryIs
  <2> HIDE DEF cpu
  <2>2. device \in Devices
    BY DEF CollectionInv
  <2>3. cpu.usage = -1 \/ cpu.usage = IF device.level = "normal" THEN 20 ELSE IF device.level = "high" THEN 75 ELSE 90
    BY <2>1, <2>2, CpuIs, PercentIs DEF Unknown
  <2>4. cpu.cores = 1 \/ cpu.cores = 4
    BY <2>1, CpuIs DEF Cores
  <2>5. "cpuinfo" \notin silent => cpu.cores = 4
    BY <2>1, CpuIs DEF Cores, Speaks
  <2>6. cpu.load = 0 \/ cpu.load = LoadOf(device.level)
    BY <2>1, CpuIs
  <2>7. LoadOf(device.level) \in Int
    BY <2>2, PercentIs
  <2>8. device.level \in Levels
    BY <2>2, DeviceIs
  <2> QED BY <2>3, <2>4, <2>5, <2>6, <2>7, <2>8 DEF Levels, cpu
<1> QED BY <1>1, <1>2

LEMMA MemoryValues ==
    ASSUME CollectionInv, report # NoReport
    PROVE  LET percent == BuildContext(report).memory.percent
           IN  /\ percent \in Int
               /\ percent >= 75 => device.level # "normal"
               /\ percent >= 90 <=> percent >= 75 /\ device.level = "critical"
<1> DEFINE percent == BuildContext(report).memory.percent
<1>1. device \in Devices /\ device.level \in Levels
  BY DeviceIs DEF CollectionInv
<1>2. percent \in {-1, 0} \/ percent = IF device.level = "normal" THEN 20 ELSE IF device.level = "high" THEN 75 ELSE 90
  <2>1. CASE "memory" \in broken
    BY <2>1, SummaryIs DEF NoMemory, Unknown
  <2>2. CASE "memory" \notin broken
    <3>1. percent = IF Memory.total = 0 THEN 0 ELSE (Memory.used * 100) \div Memory.total
      BY <2>2, SummaryIs
    <3>2. CASE MemorySpeaks
      <4>1. Memory.total = 100
            /\ Memory.used = IF device.level = "normal" THEN 20 ELSE IF device.level = "high" THEN 75 ELSE 90
        BY <1>1, <3>2, MemoryIs, PercentIs
      <4>2. (20 * 100) \div 100 = 20 /\ (75 * 100) \div 100 = 75 /\ (90 * 100) \div 100 = 90
        OBVIOUS
      <4> QED BY <3>1, <4>1, <4>2
    <3>3. CASE ~ MemorySpeaks
      <4>1. Memory.total = 0
        BY <3>3, MemoryIs
      <4> QED BY <3>1, <4>1
    <3> QED BY <3>2, <3>3
  <2> QED BY <2>1, <2>2
<1> HIDE DEF percent
<1> QED BY <1>1, <1>2 DEF Levels, percent

\* The rules of the diagnosis, one by one.
OfflineRule(context, tools) ==
    IF \A t \in tools : Nothing(context, t) THEN {Finding("offline", "critical")} ELSE {}
CpuRule(context, tools) == IF "cpu" \in tools THEN Grade("cpu", context.cpu.usage, 75, 90) ELSE {}
MemoryRule(context, tools) == IF "memory" \in tools THEN Grade("memory", context.memory.percent, 75, 90) ELSE {}
StorageRule(context, tools) ==
    IF "storage" \in tools
      THEN UNION {Grade("storage", m.percent, 85, 95) : m \in {x \in context.storage : ~x.image}} ELSE {}
LoadRule(context, tools) ==
    IF "cpu" \in tools /\ context.cpu.cores > 0
      THEN Grade("load", context.cpu.load, context.cpu.cores, 2 * context.cpu.cores) ELSE {}
WanRule(context, tools) ==
    IF "network" \in tools /\ context.network # {} /\ ~\E i \in context.network : IsWan(i)
      THEN {Finding("wan", "warning")} ELSE {}
WifiRule(context, tools) ==
    IF "wifi" \in tools /\ context.wifi.radios = {} /\ ~context.wifi.stations
      THEN {Finding("wifi", "warning")} ELSE {}
UnknownRule(context, tools) ==
    IF ("system" \in tools /\ ~context.system) \/ ("cpu" \in tools /\ context.cpu.usage = Unknown)
          \/ ("memory" \in tools /\ context.memory = NoMemory)
      THEN {Finding("unknown", "info")} ELSE {}

LEMMA DiagnoseIs ==
    ASSUME NEW context, NEW tools
    PROVE  Diagnose(context, tools) =
              OfflineRule(context, tools) \cup CpuRule(context, tools) \cup MemoryRule(context, tools)
              \cup StorageRule(context, tools) \cup LoadRule(context, tools) \cup WanRule(context, tools)
              \cup WifiRule(context, tools) \cup UnknownRule(context, tools)
BY Zenon DEF Diagnose, OfflineRule, CpuRule, MemoryRule, StorageRule, LoadRule, WanRule, WifiRule, UnknownRule

LEMMA ToolsAre == ASSUME NEW tools \in ToolsAsked PROVE tools # {}
BY DEF ToolsAsked

LEMMA SystemIs == ASSUME CollectionInv, report # NoReport, Well PROVE report.kernel
BY ReportIs, AllSpeak, NothingLost DEF Identity, Speaks

\* With all there is, there is something of everything.
LEMMA SomethingIs ==
    ASSUME CollectionInv, report # NoReport, Well
    PROVE  /\ \A t : ~ Nothing(BuildContext(report), t)
           /\ BuildContext(report).system = TRUE /\ BuildContext(report).memory # NoMemory
           /\ BuildContext(report).cpu = Cpu /\ Cpu.usage # Unknown
<1> DEFINE context == BuildContext(report)
<1>1. context.system = report.kernel /\ context.cpu = Cpu /\ context.storage = report.storage
      /\ context.network = report.network
  BY SummaryIs DEF Well
<1>2. report.kernel = TRUE
  BY SystemIs, ReportIs, NothingLost DEF Identity, Speaks
<1>3. device \in Devices
  BY DEF CollectionInv
<1>4. Cpu.usage # Unknown
  <2>1. Cpu.usage = Percent("cpu", device.level)
    BY CpuIs, WellSpeaks
  <2> QED BY <1>3, <2>1, PercentIs DEF Unknown
<1>5. context.memory # NoMemory
  <2>1. context.memory = [percent |-> IF Memory.total = 0 THEN 0 ELSE (Memory.used * 100) \div Memory.total]
    BY SummaryIs DEF Well
  <2>2. Memory.total = 100 /\ Memory.used = Percent("memory", device.level)
    BY MemoryIs, WellSpeaks
  <2>3. Memory.used \in {20, 75, 90}
    BY <1>3, <2>2, PercentIs
  <2>4. (20 * 100) \div 100 = 20 /\ (75 * 100) \div 100 = 75 /\ (90 * 100) \div 100 = 90
    OBVIOUS
  <2>5. context.memory.percent \in {20, 75, 90}
    <3> HIDE DEF context
    <3> QED BY <2>1, <2>2, <2>3, <2>4
  <2> HIDE DEF context
  <2>6. NoMemory.percent = -1
    BY DEF NoMemory, Unknown
  <2> QED BY <2>5, <2>6
<1>6. report.storage # {}
  <2>1. report.storage = Storage /\ Speaks("df")
    BY ReportIs, NothingLost, AllSpeak
  <2>2. [mount |-> "/rom", image |-> TRUE, percent |-> 100] \in Storage
    BY <2>1, Zenon DEF Storage
  <2> QED BY <2>1, <2>2
<1>7. report.network # {}
  <2>1. report.network = Network /\ Speaks("dump")
    BY ReportIs, NothingLost, AllSpeak
  <2>2. [name |-> "lan", device |-> "br-lan", proto |-> "static"] \in Logical(device)
    BY DEF Logical
  <2> QED BY <2>1, <2>2, NetifdKnows
<1> HIDE DEF context
<1>8. context.storage # {} /\ context.network # {}
  BY <1>1, <1>6, <1>7
<1>9. ASSUME NEW t PROVE ~ Nothing(context, t)
  <2>1. CASE t = "memory"
    BY <1>5, <2>1 DEF Nothing
  <2>2. CASE t = "storage"
    BY <1>8, <2>2 DEF Nothing
  <2>3. CASE t = "network"
    BY <1>8, <2>3 DEF Nothing
  <2>4. CASE t \notin {"memory", "storage", "network"}
    BY <2>4 DEF Nothing
  <2> QED BY <2>1, <2>2, <2>3, <2>4
<1> QED BY <1>1, <1>2, <1>4, <1>5, <1>9 DEF context

LEMMA OfflineIsExcused ==
    ASSUME CollectionInv, report # NoReport, NEW tools \in ToolsAsked,
           NEW f \in OfflineRule(BuildContext(report), tools)
    PROVE  Excused(f) /\ f.subject = "offline"
<1>1. f = Finding("offline", "critical") /\ \A t \in tools : Nothing(BuildContext(report), t)
  BY DEF OfflineRule
<1>2. ~ Well
  <2>1. PICK t \in tools : TRUE
    BY ToolsAre
  <2> QED BY <1>1, <2>1, SomethingIs
<1>3. f.subject = "offline"
  BY <1>1 DEF Finding
<1> QED BY <1>2, <1>3, ExcusesAre DEF Excused

LEMMA CpuIsExcused ==
    ASSUME CollectionInv, report # NoReport, NEW tools, NEW f \in CpuRule(BuildContext(report), tools)
    PROVE  Excused(f) /\ f.subject = "cpu"
<1> DEFINE usage == BuildContext(report).cpu.usage
<1>1. f \in Grade("cpu", usage, 75, 90)
  BY DEF CpuRule
<1>2. /\ usage \in Int
      /\ usage >= 75 => device.level # "normal"
      /\ usage >= 90 <=> usage >= 75 /\ device.level = "critical"
  BY CpuValues
<1>3. device.level \in Levels
  BY DeviceIs DEF CollectionInv
<1> HIDE DEF usage
<1>4. f.subject = "cpu"
      /\ ((f.severity = "critical" /\ usage >= 90) \/ (f.severity = "warning" /\ 75 <= usage /\ usage < 90))
  BY <1>1, <1>2, GradeIs
<1>5. device.level = (IF f.severity = "critical" THEN "critical" ELSE "high")
  BY <1>2, <1>3, <1>4 DEF Levels
<1> QED BY <1>4, <1>5, TroubledIs DEF Excused

LEMMA MemoryIsExcused ==
    ASSUME CollectionInv, report # NoReport, NEW tools, NEW f \in MemoryRule(BuildContext(report), tools)
    PROVE  Excused(f) /\ f.subject = "memory"
<1> DEFINE percent == BuildContext(report).memory.percent
<1>1. f \in Grade("memory", percent, 75, 90)
  BY DEF MemoryRule
<1>2. /\ percent \in Int
      /\ percent >= 75 => device.level # "normal"
      /\ percent >= 90 <=> percent >= 75 /\ device.level = "critical"
  BY MemoryValues
<1>3. device.level \in Levels
  BY DeviceIs DEF CollectionInv
<1> HIDE DEF percent
<1>4. f.subject = "memory"
      /\ ((f.severity = "critical" /\ percent >= 90) \/ (f.severity = "warning" /\ 75 <= percent /\ percent < 90))
  BY <1>1, <1>2, GradeIs
<1>5. device.level = (IF f.severity = "critical" THEN "critical" ELSE "high")
  BY <1>2, <1>3, <1>4 DEF Levels
<1> QED BY <1>4, <1>5, TroubledIs DEF Excused

LEMMA StorageIsExcused ==
    ASSUME CollectionInv, report # NoReport, NEW tools, NEW f \in StorageRule(BuildContext(report), tools)
    PROVE  Excused(f) /\ f.subject = "storage"
<1> DEFINE context == BuildContext(report)
<1>1. context.storage = report.storage
  BY SummaryIs
<1> HIDE DEF context
<1>2. PICK m \in report.storage : ~ m.image /\ f \in Grade("storage", m.percent, 85, 95)
  BY <1>1 DEF StorageRule, context
<1>3. m \in Storage
  BY <1>2, ReportIs DEF Section
<1>4. m.percent = Percent("storage", device.level)
  BY <1>2, <1>3 DEF Storage
<1>5. device \in Devices /\ device.level \in Levels
  BY DeviceIs DEF CollectionInv
<1>6. m.percent = IF device.level = "normal" THEN 20 ELSE IF device.level = "high" THEN 85 ELSE 95
  BY <1>4, <1>5, PercentIs
<1>7. f.subject = "storage"
      /\ ((f.severity = "critical" /\ m.percent >= 95) \/ (f.severity = "warning" /\ 85 <= m.percent /\ m.percent < 95))
  <2>1. m.percent \in Int
    BY <1>6
  <2> QED BY <1>2, <2>1, GradeIs
<1>8. device.level = (IF f.severity = "critical" THEN "critical" ELSE "high")
  BY <1>5, <1>6, <1>7 DEF Levels
<1> QED BY <1>7, <1>8, TroubledIs DEF Excused

LEMMA LoadIsExcused ==
    ASSUME CollectionInv, report # NoReport, NEW tools, NEW f \in LoadRule(BuildContext(report), tools)
    PROVE  Excused(f) /\ f.subject = "load"
<1> DEFINE cpu == BuildContext(report).cpu
<1>1. cpu.cores > 0 /\ f \in Grade("load", cpu.load, cpu.cores, 2 * cpu.cores)
  BY DEF LoadRule
<1>2. /\ cpu.cores \in Int /\ cpu.load \in Int
      /\ "cpuinfo" \notin silent => cpu.cores = 4
      /\ cpu.load = 0 \/ cpu.load = LoadOf(device.level)
  BY <1>1, CpuValues
<1>3. device \in Devices /\ device.level \in Levels
  BY DeviceIs DEF CollectionInv
<1> HIDE DEF cpu
<1>4. f.subject = "load"
      /\ ((f.severity = "critical" /\ cpu.load >= 2 * cpu.cores)
          \/ (f.severity = "warning" /\ cpu.cores <= cpu.load /\ cpu.load < 2 * cpu.cores))
  BY <1>1, <1>2, GradeIs
<1>5. CASE "cpuinfo" \in silent
  BY <1>4, <1>5, ExcusesAre DEF Excused
<1>6. CASE "cpuinfo" \notin silent
  <2>1. LoadOf(device.level) = IF device.level = "normal" THEN 2 ELSE IF device.level = "high" THEN 4 ELSE 8
    BY <1>3, PercentIs
  <2>2. device.level = (IF f.severity = "critical" THEN "critical" ELSE "high")
    BY <1>2, <1>3, <1>4, <1>6, <2>1 DEF Levels
  <2> QED BY <1>4, <2>2, TroubledIs DEF Excused
<1> QED BY <1>5, <1>6

LEMMA WanIsExcused ==
    ASSUME CollectionInv, report # NoReport, NEW tools, NEW f \in WanRule(BuildContext(report), tools)
    PROVE  Excused(f) /\ f.subject = "wan"
<1> DEFINE context == BuildContext(report)
<1>1. f = Finding("wan", "warning") /\ context.network # {} /\ ~\E i \in context.network : IsWan(i)
  BY DEF WanRule
<1>2. context.network = report.network
  BY SummaryIs
<1> HIDE DEF context
<1>3. f.subject = "wan"
  BY <1>1 DEF Finding
<1>4. report.network = Network
  BY <1>1, <1>2, ReportIs DEF Section
<1>5. CASE "dump" \in silent
  BY <1>3, <1>5, ExcusesAre DEF Excused
<1>6. CASE "dump" \notin silent
  <2>1. device.uplink = "none"
    <3> SUFFICES ASSUME device.uplink # "none" PROVE FALSE
      OBVIOUS
    <3>1. [name |-> "wan", device |-> "eth0", proto |-> "dhcp"] \in Logical(device)
      BY DEF Logical
    <3>2. PICK i \in Network : i.name = "wan"
      BY <1>6, <3>1, NetifdKnows DEF Speaks
    <3> QED BY <1>1, <1>2, <1>4, <3>2 DEF IsWan
  <2> QED BY <1>3, <2>1, TroubledIs DEF Excused
<1> QED BY <1>5, <1>6

\* Radios are unknown only when both who could tell are silent.
LEMMA RadiosAreFound ==
    ASSUME device.radio # "none", Radios = {}
    PROVE  {"wifi status", "uci wireless"} \subseteq silent
<1>1. StatusTells <=> Speaks("wifi status")
  BY Zenon DEF StatusTells
<1>2. UciTells <=> Speaks("uci wireless")
  BY Zenon DEF UciTells
<1>3. ~ StatusTells
  BY Zenon DEF Radios
<1>4. ~ UciTells
  <2>1. RadiosFromUci = {}
    BY <1>3, Zenon DEF Radios
  <2> DEFINE x == [name |-> "radio0", up |-> Live /\ OnAir(device), stations |-> LiveStations]
  <2>2. UciTells => x \in RadiosFromUci
    BY DEF RadiosFromUci
  <2> QED BY <2>1, <2>2
<1>5. "wifi status" \in silent /\ "uci wireless" \in silent
  BY <1>1, <1>2, <1>3, <1>4, Zenon DEF Speaks
<1> QED BY <1>5, Zenon

LEMMA WifiIsExcused ==
    ASSUME CollectionInv, report # NoReport, NEW tools, NEW f \in WifiRule(BuildContext(report), tools)
    PROVE  Excused(f) /\ f.subject = "wifi"
<1> DEFINE context == BuildContext(report)
<1>1. f = Finding("wifi", "warning") /\ context.wifi.radios = {}
  BY DEF WifiRule
<1>2. context.wifi.radios = report.wifi.radios
  BY SummaryIs
<1> HIDE DEF context
<1>3. f.subject = "wifi"
  BY <1>1 DEF Finding
<1>4. CASE device.radio = "none"
  BY <1>3, <1>4, TroubledIs DEF Excused
<1>5. CASE device.radio # "none"
  <2>1. "wifi" \in broken \/ {"wifi status", "uci wireless"} \subseteq silent
    <3>1. "wifi" \in broken \/ Radios = {}
      BY <1>1, <1>2, WifiIs
    <3> QED BY <1>5, <3>1, RadiosAreFound, Zenon
  <2>2. Excuses(f) <=> "wifi" \in broken \/ {"wifi status", "uci wireless"} \subseteq silent
    BY <1>3, Zenon DEF Excuses
  <2> QED BY <1>3, <2>1, <2>2, Zenon DEF Excused
<1> QED BY <1>4, <1>5

LEMMA UnknownIsExcused ==
    ASSUME CollectionInv, report # NoReport, NEW tools, NEW f \in UnknownRule(BuildContext(report), tools)
    PROVE  Excused(f) /\ f.subject = "unknown"
<1> DEFINE context == BuildContext(report)
<1>1. f = Finding("unknown", "info") /\ (~ context.system \/ context.cpu.usage = Unknown \/ context.memory = NoMemory)
  BY DEF UnknownRule
<1>2. Well => context.system = TRUE /\ context.cpu.usage # Unknown /\ context.memory # NoMemory
  BY SomethingIs
<1> HIDE DEF context
<1>3. f.subject = "unknown" /\ ~ Well
  BY <1>1, <1>2 DEF Finding
<1> QED BY <1>3, ExcusesAre DEF Excused

\* What a finding can be about.
Subjects == {"offline", "cpu", "memory", "storage", "load", "wan", "wifi", "unknown"}

LEMMA FindingsAreExcused ==
    ASSUME CollectionInv, report # NoReport, NEW tools \in ToolsAsked,
           NEW f \in Diagnose(BuildContext(report), tools)
    PROVE  Excused(f) /\ f.subject \in Subjects
<1> DEFINE context == BuildContext(report)
<1>1. \/ f \in OfflineRule(context, tools) \/ f \in CpuRule(context, tools) \/ f \in MemoryRule(context, tools)
      \/ f \in StorageRule(context, tools) \/ f \in LoadRule(context, tools) \/ f \in WanRule(context, tools)
      \/ f \in WifiRule(context, tools) \/ f \in UnknownRule(context, tools)
  BY DiagnoseIs, Zenon
<1> QED BY <1>1, OfflineIsExcused, CpuIsExcused, MemoryIsExcused, StorageIsExcused, LoadIsExcused, WanIsExcused,
           WifiIsExcused, UnknownIsExcused DEF Subjects

LEMMA FindingIs == ASSUME NEW subject, NEW severity PROVE Finding(subject, severity).subject = subject
BY DEF Finding

\* Of a trouble the tools are asked about, when everything answers, there is a
\* finding.
LEMMA LoadIsFound ==
    ASSUME CollectionInv, report # NoReport, Well, device.level # "normal", NEW tools, "cpu" \in tools
    PROVE  {"cpu", "load"} \subseteq {f.subject : f \in Diagnose(BuildContext(report), tools)}
<1> DEFINE context == BuildContext(report)
           cpu == context.cpu
<1>1. cpu = Cpu
  BY SomethingIs
<1>2. device \in Devices /\ device.level \in {"high", "critical"}
  BY DeviceIs DEF CollectionInv, Levels
<1>3. Cpu.usage \in {75, 90}
  BY <1>2, WellSpeaks, CpuIs, PercentIs
<1>4. Cpu.cores = 4
  BY AllSpeak, CpuIs DEF Cores
<1>5. Cpu.load \in {4, 8}
  BY <1>2, WellSpeaks, CpuIs, PercentIs
<1>6. \E f \in CpuRule(context, tools) : f.subject = "cpu"
  <2>1. CpuRule(context, tools) = Grade("cpu", Cpu.usage, 75, 90)
    BY <1>1 DEF CpuRule
  <2>2. \E s : Finding("cpu", s) \in Grade("cpu", Cpu.usage, 75, 90)
    BY <1>3 DEF Grade
  <2> QED BY <2>1, <2>2, FindingIs
<1>7. \E f \in LoadRule(context, tools) : f.subject = "load"
  <2>1. LoadRule(context, tools) = Grade("load", Cpu.load, 4, 8)
    BY <1>1, <1>4 DEF LoadRule
  <2>2. \E s : Finding("load", s) \in Grade("load", Cpu.load, 4, 8)
    BY <1>5 DEF Grade
  <2> QED BY <2>1, <2>2, FindingIs
<1> HIDE DEF context
<1>8. CpuRule(context, tools) \cup LoadRule(context, tools) \subseteq Diagnose(context, tools)
  BY DiagnoseIs, Zenon
<1> QED BY <1>6, <1>7, <1>8 DEF context

LEMMA RadioIsFound ==
    ASSUME CollectionInv, report # NoReport, Well, device.radio = "none", NEW tools, "wifi" \in tools
    PROVE  Finding("wifi", "warning") \in Diagnose(BuildContext(report), tools)
<1> DEFINE context == BuildContext(report)
<1>1. context.wifi.radios = report.wifi.radios
      /\ context.wifi.stations = (\E x \in report.wifi.radios : x.stations > 0)
  BY SummaryIs
<1>2. Radios = {}
  <2>1. ~ StatusTells /\ ~ UciTells
    BY Zenon DEF StatusTells, UciTells
  <2>2. ~ HasInterface(device)
    BY DEF HasInterface, OnAir
  <2>3. ~ Live
    BY <2>2, Zenon DEF Live
  <2>4. RadiosFromUci = {}
    BY <2>1, <2>3 DEF RadiosFromUci
  <2> QED BY <2>1, <2>4, Zenon DEF Radios
<1>3. report.wifi.radios = {}
  BY <1>2, WifiIs DEF Well
<1> HIDE DEF context
<1>4. context.wifi.radios = {} /\ ~ context.wifi.stations
  BY <1>1, <1>3
<1>5. Finding("wifi", "warning") \in WifiRule(context, tools)
  BY <1>4 DEF WifiRule
<1> QED BY <1>5, DiagnoseIs, Zenon DEF context

\* Every subject has one group.
LEMMA GroupsAre ==
    /\ \A s \in Subjects : \E g \in DOMAIN Groups : s \in Groups[g]
    /\ \A s \in Subjects : \A g, h \in DOMAIN Groups : s \in Groups[g] /\ s \in Groups[h] => g = h
    /\ \A g \in DOMAIN Groups : Groups[g] \subseteq Subjects
<1> DEFINE G == {"connectivity", "cpu", "memory", "storage", "wan", "wifi", "data_quality"}
<1>1. DOMAIN Groups = G
  BY DEF Groups
<1>2. /\ Groups["connectivity"] = {"offline"} /\ Groups["cpu"] = {"cpu", "load"}
      /\ Groups["memory"] = {"memory"} /\ Groups["storage"] = {"storage"}
      /\ Groups["wan"] = {"wan"} /\ Groups["wifi"] = {"wifi"} /\ Groups["data_quality"] = {"unknown"}
  BY DEF Groups
<1>3. \A s \in Subjects : \E g \in G : s \in Groups[g]
  BY <1>2 DEF Subjects
<1>4. \A g \in G : Groups[g] \subseteq Subjects
  BY <1>2 DEF Subjects
<1>5. ASSUME NEW s \in Subjects, NEW g \in G, NEW h \in G, s \in Groups[g], s \in Groups[h] PROVE g = h
  BY <1>2, <1>5
<1> QED BY <1>1, <1>3, <1>4, <1>5

\* The priority of recommendations.
LEMMA PriorityIs ==
    ASSUME NEW findings
    PROVE  Priority(findings) = "urgent" <=> \E f \in findings : f.severity = "critical"
BY DEF Priority

Of(findings, g) == {f \in findings : f.subject \in Groups[g]}

LEMMA RecommendIs ==
    ASSUME NEW findings
    PROVE  Recommend(findings) =
              {[id |-> g, priority |-> Priority(Of(findings, g))] : g \in {h \in DOMAIN Groups : Of(findings, h) # {}}}
BY Zenon DEF Recommend, Of

\* There are at most as many recommendations as there are subjects, and one is
\* urgent when a finding is critical.
LEMMA AdviceIs ==
    ASSUME NEW findings, \A f \in findings : f.subject \in Subjects
    PROVE  /\ Cardinality(Recommend(findings)) <= Cardinality({f.subject : f \in findings})
           /\ (\E f \in findings : f.severity = "critical")
                 <=> \E a \in Recommend(findings) : a.priority = "urgent"
<1> DEFINE advice == Recommend(findings)
           subjects == {f.subject : f \in findings}
           group(s) == CHOOSE g \in DOMAIN Groups : s \in Groups[g]
           adviceOf(g) == [id |-> g, priority |-> Priority(Of(findings, g))]
           map == [s \in subjects |-> adviceOf(group(s))]
<1>1. \A f \in findings : /\ f.subject \in subjects /\ f.subject \in Subjects
                          /\ group(f.subject) \in DOMAIN Groups /\ f.subject \in Groups[group(f.subject)]
  BY GroupsAre
<1>2. \A f \in findings, g \in DOMAIN Groups : f.subject \in Groups[g] => group(f.subject) = g
  BY <1>1, GroupsAre
<1>3. \A g, f : f \in Of(findings, g) <=> f \in findings /\ f.subject \in Groups[g]
  BY DEF Of
<1>4. \A g \in DOMAIN Groups : Of(findings, g) # {} => adviceOf(g) \in advice
  BY RecommendIs
<1>5. \A a \in advice : \E g \in DOMAIN Groups : Of(findings, g) # {} /\ a = adviceOf(g)
  BY RecommendIs
<1>6. \A g : adviceOf(g).priority = Priority(Of(findings, g))
  OBVIOUS
<1>7. \A s \in subjects : \E f \in findings : s = f.subject
  OBVIOUS
<1> HIDE DEF advice, group, adviceOf, subjects
<1>8. map \in Surjection(subjects, advice)
  <2>1. ASSUME NEW s \in subjects PROVE adviceOf(group(s)) \in advice
    <3>1. PICK f \in findings : s = f.subject
      BY <1>7
    <3> QED BY <1>1, <1>3, <1>4, <3>1
  <2>2. ASSUME NEW a \in advice PROVE \E s \in subjects : map[s] = a
    <3>1. PICK g \in DOMAIN Groups : Of(findings, g) # {} /\ a = adviceOf(g)
      BY <1>5
    <3>2. PICK f \in findings : f.subject \in Groups[g]
      BY <1>3, <3>1
    <3>3. f.subject \in subjects /\ group(f.subject) = g
      BY <1>1, <1>2, <3>2
    <3>4. map[f.subject] = a
      BY <3>1, <3>3
    <3> QED BY <3>3, <3>4
  <2>3. map \in [subjects -> advice]
    BY <2>1
  <2> HIDE DEF map
  <2> QED BY <2>2, <2>3 DEF Surjection
<1>9. IsFiniteSet(subjects)
  <2>1. subjects \subseteq Subjects
    BY <1>1, <1>7
  <2>2. IsFiniteSet(Subjects)
    <3>1. /\ IsFiniteSet({"offline"}) /\ IsFiniteSet({"cpu"}) /\ IsFiniteSet({"memory"}) /\ IsFiniteSet({"storage"})
          /\ IsFiniteSet({"load"}) /\ IsFiniteSet({"wan"}) /\ IsFiniteSet({"wifi"}) /\ IsFiniteSet({"unknown"})
      BY FS_Singleton
    <3>2. Subjects = {"offline"} \cup {"cpu"} \cup {"memory"} \cup {"storage"} \cup {"load"} \cup {"wan"}
                     \cup {"wifi"} \cup {"unknown"}
      BY DEF Subjects
    <3>3. IsFiniteSet({"offline"} \cup {"cpu"} \cup {"memory"} \cup {"storage"})
      BY <3>1, FS_Union
    <3>4. IsFiniteSet(({"offline"} \cup {"cpu"} \cup {"memory"} \cup {"storage"}) \cup {"load"} \cup {"wan"})
      BY <3>1, <3>3, FS_Union
    <3>5. IsFiniteSet((({"offline"} \cup {"cpu"} \cup {"memory"} \cup {"storage"}) \cup {"load"} \cup {"wan"})
                      \cup {"wifi"} \cup {"unknown"})
      BY <3>1, <3>4, FS_Union
    <3> QED BY <3>2, <3>5
  <2> QED BY <2>1, <2>2, FS_Subset
<1>10. Cardinality(advice) <= Cardinality(subjects)
  <2> HIDE DEF map
  <2> QED BY <1>8, <1>9, FS_Surjection
<1>11. ASSUME NEW f \in findings, f.severity = "critical" PROVE \E a \in advice : a.priority = "urgent"
  <2> DEFINE g == group(f.subject)
  <2>1. f \in Of(findings, g) /\ adviceOf(g) \in advice
    BY <1>1, <1>3, <1>4
  <2>2. Priority(Of(findings, g)) = "urgent"
    BY <1>11, <2>1, PriorityIs
  <2> QED BY <1>6, <2>1, <2>2
<1>12. ASSUME NEW a \in advice, a.priority = "urgent" PROVE \E f \in findings : f.severity = "critical"
  <2>1. PICK g \in DOMAIN Groups : a = adviceOf(g)
    BY <1>5
  <2>2. Priority(Of(findings, g)) = "urgent"
    BY <1>6, <1>12, <2>1
  <2>3. PICK f \in Of(findings, g) : f.severity = "critical"
    BY <2>2, PriorityIs
  <2> QED BY <1>3, <2>3
<1> QED BY <1>10, <1>11, <1>12 DEF advice, subjects

LEMMA AdviceFollows == CollectionInv => AdviceIsGrounded
<1> SUFFICES ASSUME CollectionInv, report # NoReport PROVE AdviceIsGrounded
  BY DEF AdviceIsGrounded
<1> DEFINE told == BuildAvailabilityManifest(report)
           well == silent = {} /\ broken = {}
           Findings(tools) == Diagnose(BuildContext(report), tools)
<1>1. ASSUME NEW c \in DOMAIN Really
      PROVE  /\ told[c] = "available" => Really[c]
             /\ told[c] \in {"not_available", "unknown"} => ~Really[c] \/ ~well
             /\ told[c] = "error" => broken # {}
  BY ManifestIsRight DEF Right, Well
<1>2. ASSUME NEW tools \in ToolsAsked
      PROVE  LET findings == Findings(tools)
                 advice == Recommend(findings)
             IN  /\ \A f \in findings : Troubled(f) \/ Excuses(f)
                 /\ well /\ device.level # "normal" /\ "cpu" \in tools =>
                         {"cpu", "load"} \subseteq {f.subject : f \in findings}
                 /\ well /\ device.radio = "none" /\ "wifi" \in tools =>
                         Finding("wifi", "warning") \in findings
                 /\ Cardinality(advice) <= Cardinality({f.subject : f \in findings})
                 /\ (\E f \in findings : f.severity = "critical")
                         <=> \E a \in advice : a.priority = "urgent"
  <2>1. \A f \in Findings(tools) : (Troubled(f) \/ Excuses(f)) /\ f.subject \in Subjects
    BY FindingsAreExcused DEF Excused
  <2>2. well /\ device.level # "normal" /\ "cpu" \in tools =>
           {"cpu", "load"} \subseteq {f.subject : f \in Findings(tools)}
    BY LoadIsFound DEF Well
  <2>3. well /\ device.radio = "none" /\ "wifi" \in tools => Finding("wifi", "warning") \in Findings(tools)
    BY RadioIsFound DEF Well
  <2> HIDE DEF Findings
  <2>4. /\ Cardinality(Recommend(Findings(tools))) <= Cardinality({f.subject : f \in Findings(tools)})
        /\ (\E f \in Findings(tools) : f.severity = "critical")
              <=> \E a \in Recommend(Findings(tools)) : a.priority = "urgent"
    BY <2>1, AdviceIs
  <2> QED BY <2>1, <2>2, <2>3, <2>4, Zenon
<1> QED BY <1>1, <1>2, Zenon DEF AdviceIsGrounded

\* What the copilot is told of a router is so, whatever set of its sources gives
\* no answer and whatever collectors raise over those that do: data it is told
\* to be there the router has, a finding is true or comes from the failure of its
\* own source, there is advice as urgent as the findings, and no client is called
\* wired or wireless that is not (router_context_policy.py, router_diagnosis.py,
\* router_recommendation.py, classify_client_media).
THEOREM WhatIsToldIsAlwaysSo == Spec => []WhatIsToldIsSo
<1>1. Init => CollectionInv
  BY PartSteps, CollectionInitInv
<1>2. CollectionInv /\ [Next]_vars => CollectionInv'
  BY PartSteps, CollectionStep
<1>3. CollectionInv => WhatIsToldIsSo
  BY ClientsFollow, AdviceFollows DEF WhatIsToldIsSo
<1> QED BY <1>1, <1>2, <1>3, PTL DEF Spec

-----------------------------------------------------------------------------
(* Types.                                                                  *)

\* The invariants of all parts, whichever the behaviour is about.
Invariants ==
    /\ part \in Parts
    /\ ScriptsInv /\ ConfigRest
    /\ CachesInv /\ SpeedInv /\ SpeedTimes
    /\ BackupsInv /\ BackupSizes
    /\ BootInv /\ SessionsInv
    /\ ProvidersInv /\ KnowledgeInv
    /\ ChatInv /\ CollectionInv /\ PromptInv

\* What the parts keep, the code's tables, caches, files and memories among it,
\* stays in its type, for every value of the constants; the bounds of the
\* counters and of the memories' lengths are among the types, and follow from
\* the invariants only.
THEOREM TypesAreKept == Spec => []TypeOK
<1>1. Init => Invariants
  <2> SUFFICES ASSUME Init PROVE Invariants
    OBVIOUS
  <2>1. part \in Parts
    BY PartSteps
  <2>2. ScriptsInv /\ ConfigRest
    BY PartSteps, ScriptsInitInv, ConfigRestInit
  <2>3. CachesInv /\ SpeedInv /\ SpeedTimes
    BY PartSteps, CachesInitInv, SpeedInitInv, SpeedTimesKept
  <2>4. BackupsInv /\ BackupSizes
    BY PartSteps, BackupsInitInv, BackupSizesInit
  <2>5. BootInv /\ SessionsInv
    BY PartSteps, BootInitInv, AccountsInitInv, SessionsInitInv DEF BootInv
  <2>6. ProvidersInv /\ KnowledgeInv
    BY PartSteps, ProvidersInitInv, KnowledgeInitInv
  <2>7. ChatInv /\ CollectionInv /\ PromptInv
    BY PartSteps, InitIsInv, CollectionInitInv, PromptInvInit
  <2> QED BY <2>1, <2>2, <2>3, <2>4, <2>5, <2>6, <2>7 DEF Invariants
<1>2. Invariants /\ [Next]_vars => Invariants'
  <2> SUFFICES ASSUME Invariants, [Next]_vars PROVE Invariants'
    OBVIOUS
  <2>1. (part \in Parts)'
    BY PartSteps DEF Invariants
  <2>2. (ScriptsInv /\ ConfigRest)'
    BY PartSteps, ScriptsStep, ConfigRestStep DEF Invariants
  <2>3. (CachesInv /\ SpeedInv /\ SpeedTimes)'
    BY PartSteps, CachesStep, SpeedStep, SpeedTimesKept DEF Invariants
  <2>4. (BackupsInv /\ BackupSizes)'
    BY PartSteps, BackupsStep, BackupSizesStep DEF Invariants
  <2>5. (BootInv /\ SessionsInv)'
    BY PartSteps, BootStep, SessionsStep DEF Invariants
  <2>6. (ProvidersInv /\ KnowledgeInv)'
    BY PartSteps, ProvidersStep, KnowledgeStep DEF Invariants
  <2>7. (ChatInv /\ CollectionInv /\ PromptInv)'
    BY PartSteps, StepIsInv, CollectionStep, PromptInvStep DEF Invariants
  <2> QED BY <2>1, <2>2, <2>3, <2>4, <2>5, <2>6, <2>7 DEF Invariants
<1>3. Invariants => TypeOK
  <2> SUFFICES ASSUME Invariants PROVE TypeOK
    OBVIOUS
  <2>1. ConfigTypeOK /\ BackupsTypeOK /\ SpeedTypeOK /\ SessionsTypeOK
    BY RestIs, SizesAre, SpeedTypesAre, SessionTypesAre DEF Invariants
  <2>2. CachesTypeOK /\ BootTypeOK /\ ProvidersTypeOK /\ KnowledgeTypeOK
    BY DEF Invariants, CachesInv, BootInv, ProvidersInv, KnowledgeInv
  <2>3. ChatTypeOK /\ CollectionTypeOK /\ PromptsTypeOK
    BY InvIsKept, CollectionTypes, PromptInvTypes DEF Invariants
  <2> QED BY <2>1, <2>2, <2>3 DEF Invariants, TypeOK
<1> QED BY <1>1, <1>2, <1>3, PTL DEF Spec
=============================================================================
