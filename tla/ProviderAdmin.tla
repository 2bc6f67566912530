---------------------------- MODULE ProviderAdmin ----------------------------
(***************************************************************************)
(* The administration of AI providers: providers.yaml, the encrypted store  *)
(* of their keys, and the manager and the RAG service built from the two,   *)
(* which every change replaces (reload_provider_manager).                   *)
(*                                                                         *)
(* A handler runs on the event loop without a break up to the await that    *)
(* builds the new RAG service, so reads and writes of the two files never   *)
(* interleave; what follows that await does, with other handlers.  A write  *)
(* may fail, and the process may die, between the files.                    *)
(***************************************************************************)
EXTENDS Integers, FiniteSets

CONSTANTS
    Types,      \* provider types
    ApiKeys,    \* API keys
    Handlers,   \* requests that may be handled together
    MaxReloads  \* bound: managers built in one life of the process

VARIABLES
    config,     \* providers.yaml: which providers it has and which is the default
    stored,     \* stored[t]: the key kept for t, or NoApiKey
    manager,    \* app.state.provider_manager, managers being numbered
    running,    \* running[t]: the key it runs t with, or NotRunning
    defaultName,  \* the provider it prefers, or NoDefault
    rag,        \* the manager app.state.rag_service was built with, or NoManager
    openRags,   \* managers whose RAG service is not closed
    closed,     \* managers that are closed
    handler,    \* handler[h]: where h is in reload_provider_manager
    built,      \* managers built so far
    stale,      \* history: a handler failed, or a key was removed, since a reload
    failed,     \* history: a handler has failed
    overlapped  \* history: two reloads were under way together

providerVars == <<config, stored, manager, running, defaultName, rag, openRags, closed,
                  handler, built, stale, failed, overlapped>>

NoApiKey == "no key"
NotRunning == "not running"
NoDefault == "no default"
NoManager == -1

ASSUME ProviderAdminAssumption ==
    MaxReloads \in Nat /\ NoDefault \notin Types /\ NotRunning \notin ApiKeys

Managers == 0..MaxReloads

Config(provider, default) == [is |-> "whole", provider |-> provider, default |-> default]
Unreadable == [is |-> "unreadable"]
NoProviders == [t \in Types |-> "none"]
Configs == [is : {"whole"}, provider : [Types -> {"none", "disabled", "enabled"}],
            default : Types \cup {NoDefault}]

Waiting == [at |-> "idle", own |-> NoManager, oldRag |-> NoManager, old |-> NoManager]
Up == manager # NoManager
Quiet == \A h \in Handlers : handler[h] = Waiting

ProvidersTypeOK ==
    /\ config \in Configs \cup {Unreadable}
    /\ stored \in [Types -> ApiKeys \cup {NoApiKey}]
    /\ manager \in Managers \cup {NoManager} /\ rag \in Managers \cup {NoManager}
    /\ running \in [Types -> ApiKeys \cup {NoApiKey, NotRunning}]
    /\ defaultName \in Types \cup {NoDefault}
    /\ openRags \subseteq Managers /\ closed \subseteq Managers
    /\ handler \in [Handlers -> [at : {"idle", "loads", "closes rag", "closes manager"},
          own : Managers \cup {NoManager}, oldRag : Managers \cup {NoManager},
          old : Managers \cup {NoManager}]]
    /\ built \in 0..MaxReloads + 1
    /\ stale \in BOOLEAN /\ failed \in BOOLEAN /\ overlapped \in BOOLEAN

-----------------------------------------------------------------------------
(* Reloading.                                                              *)

\* A manager runs the enabled providers, each with the key stored by then.
RunsWith(c, keys) ==
    [t \in Types |-> IF c.provider[t] = "enabled" THEN keys[t] ELSE NotRunning]

\* It has a default when it runs the one the configuration names.
Preferred(c) ==
    IF \E t \in Types : c.default = t /\ c.provider[t] = "enabled" THEN c.default ELSE NoDefault

\* What a reload remembers from before its await.
MutantOld == built
Old == manager

Rebind(h, c, keys) ==
    /\ built < MaxReloads + 1
    /\ manager' = built /\ built' = built + 1
    /\ running' = RunsWith(c, keys) /\ defaultName' = Preferred(c)
    /\ handler' = [handler EXCEPT ![h] =
           [at |-> "loads", own |-> built, oldRag |-> rag, old |-> Old]]
    /\ overlapped' = (overlapped \/ ~ Quiet)

\* The RAG service is built and takes its place, or it cannot be built.
LoadRag(h, ok) ==
    /\ handler[h].at = "loads"
    /\ rag' = IF ok THEN handler[h].own ELSE NoManager
    /\ openRags' = IF ok THEN openRags \cup {handler[h].own} ELSE openRags
    /\ handler' = [handler EXCEPT ![h].at = "closes rag"]
    /\ UNCHANGED <<config, stored, manager, running, defaultName, closed, built,
                   stale, failed, overlapped>>

CloseRag(h) ==
    /\ handler[h].at = "closes rag"
    /\ openRags' = openRags \ {handler[h].oldRag}
    /\ handler' = [handler EXCEPT ![h].at = "closes manager"]
    /\ UNCHANGED <<config, stored, manager, running, defaultName, rag, closed, built,
                   stale, failed, overlapped>>

CloseManager(h) ==
    /\ handler[h].at = "closes manager"
    /\ closed' = closed \cup {handler[h].old}
    /\ handler' = [handler EXCEPT ![h] = Waiting]
    /\ UNCHANGED <<config, stored, manager, running, defaultName, rag, openRags, built,
                   stale, failed, overlapped>>

-----------------------------------------------------------------------------
(* What is read of them.                                                   *)

Has(t) == config.provider[t] # "none"
IsRunning(t) == running[t] # NotRunning

\* Who may answer, of those that are able: the one asked for, else the default,
\* else any; asking for one that does not run is an error (BadRequest).
BadRequest == "the provider is not configured"

ProviderFor(asked, able) ==
    IF asked # NoDefault /\ ~ IsRunning(asked) THEN {BadRequest}
    ELSE IF asked \in able THEN {asked}
    ELSE IF defaultName \in able THEN {defaultName}
    ELSE {t \in able : IsRunning(t)}

\* To embed, those that declare it are asked first, then those found to be able by
\* a probe, whose failure passes over the provider.
DetectRuntime(asked, detected) == ProviderFor(asked, detected)
EmbedderFor(asked, declared, detected) ==
    IF ProviderFor(asked, declared) = {} THEN DetectRuntime(asked, detected)
    ELSE ProviderFor(asked, declared)

NotListed == [listed |-> FALSE]
ConsoleEntry(enabled, default, keyed) ==
    [listed |-> TRUE, enabled |-> enabled, default |-> default, keyed |-> keyed]
DisabledEntry(t) == ConsoleEntry(FALSE, config.default = t, stored[t] # NoApiKey)

\* The list of providers: those that run as they run, the disabled as saved.
ListedAs(t) ==
    IF IsRunning(t) THEN ConsoleEntry(TRUE, defaultName = t, Has(t) /\ stored[t] # NoApiKey)
    ELSE IF config.provider[t] = "disabled" THEN DisabledEntry(t)
    ELSE NotListed

\* One provider: one that is saved and does not run is called disabled.
DetailOf(t) ==
    IF IsRunning(t) THEN ConsoleEntry(TRUE, defaultName = t, stored[t] # NoApiKey)
    ELSE IF Has(t) THEN DisabledEntry(t)
    ELSE NotListed

\* How a provider answers a key: the ones in accepts it lets through to what else
\* there is to say, and a failure is told by its kind and its words.
ProbeErrors == {"none", "authentication", "rate limit", "unavailable", "other", "build"}
Words == {"timeout", "no such model", "nothing"}
UpstreamSays(key, accepts, rest) == IF key \in accepts THEN rest ELSE "authentication"

CategoryOf(failure, words) ==
    IF failure = "none" THEN "ok"
    ELSE IF failure = "authentication" THEN "authentication_failed"
    ELSE IF failure = "rate limit" THEN "rate_limited"
    ELSE IF failure = "build" THEN "invalid_configuration"
    ELSE IF failure = "unavailable" /\ words = "timeout" THEN "timeout"
    ELSE IF words = "no such model" THEN "model_not_found"
    ELSE IF failure = "unavailable" THEN "endpoint_unreachable" ELSE "provider_rejected"

\* A test uses the key that was typed, or else the one stored for the type; it
\* needs a model, and is passed when the stream ends, with or without a reply.
TestKey(t, typed) == IF typed # NoApiKey THEN typed ELSE stored[t]
TestOf(t, typed, model, accepts, rest, words) ==
    IF model THEN CategoryOf(UpstreamSays(TestKey(t, typed), accepts, rest), words)
    ELSE "invalid_configuration"

-----------------------------------------------------------------------------
(* The handlers.                                                           *)

\* What is left of a configuration whose write failed: the file is emptied and
\* then written, and nothing, or a part that begins with the default, may still
\* read as one.
LeftOf(c) ==
    {Unreadable, Config(NoProviders, NoDefault)} \cup
    {Config([t \in Types |-> IF t \in kept THEN c.provider[t] ELSE "none"], c.default) :
        kept \in SUBSET Types}

\* The configuration is written, then the keys, with one of the given outcomes,
\* then all is reloaded, by a handler that is free; or a write fails: that of the
\* keys leaves the whole new configuration.
Save(c, keyStores) ==
    \/ \E h \in Handlers, keys \in keyStores :
          /\ handler[h] = Waiting /\ Rebind(h, c, keys)
          /\ config' = c /\ stored' = keys /\ stale' = FALSE
          /\ UNCHANGED <<rag, openRags, closed, failed>>
    \/ /\ config' \in LeftOf(c)
       /\ stale' = TRUE /\ failed' = TRUE
       /\ UNCHANGED <<stored, manager, running, defaultName, rag, openRags, closed, handler,
                      built, overlapped>>

CanHandle == Up /\ config.is = "whole" /\ \E h \in Handlers : handler[h] = Waiting

\* A key may come with a provider, or the one it has is kept.
Keyed(t) == {stored} \cup {[stored EXCEPT ![t] = key] : key \in ApiKeys}

Create(t, state) ==
    /\ CanHandle /\ ~ Has(t)
    /\ Save([config EXCEPT !.provider[t] = state], Keyed(t))

Update(t, state) ==
    /\ CanHandle /\ Has(t)
    /\ Save([config EXCEPT !.provider[t] = state], Keyed(t))

\* A deleted provider takes its key along, and is no longer the default.
Without(t) == [stored EXCEPT ![t] = NoApiKey]

Delete(t) ==
    /\ CanHandle /\ Has(t)
    /\ Save(Config([config.provider EXCEPT ![t] = "none"],
                      IF config.default = t THEN NoDefault ELSE config.default), {Without(t)})

Switch(t, state) ==
    /\ CanHandle /\ config.provider[t] \in {"enabled", "disabled"} \ {state}
    /\ Save([config EXCEPT !.provider[t] = state], {stored})

SetDefault(t) ==
    /\ CanHandle /\ config.provider[t] = "enabled" /\ config.default # t
    /\ Save([config EXCEPT !.default = t], {stored})

\* Nothing is reloaded: the manager goes on with the key.
RemoveKey(t) ==
    /\ CanHandle /\ Has(t) /\ stored[t] # NoApiKey
    /\ stored' = Without(t)
    /\ stale' = TRUE
    /\ UNCHANGED <<config, manager, running, defaultName, rag, openRags, closed, handler,
                   built, failed, overlapped>>

-----------------------------------------------------------------------------
(* The process.                                                            *)

Exit ==
    /\ manager' = NoManager /\ rag' = NoManager
    /\ running' = [t \in Types |-> NotRunning] /\ defaultName' = NoDefault
    /\ openRags' = {} /\ closed' = {}
    /\ handler' = [h \in Handlers |-> Waiting]
    /\ built' = 0 /\ overlapped' = FALSE

ProcessEnds == Up /\ Exit /\ UNCHANGED <<config, stored, stale, failed>>

\* The lifespan builds both; a file it cannot read ends it.
Start(ok) ==
    /\ ~ Up /\ config.is = "whole"
    /\ manager' = 0 /\ built' = 1
    /\ running' = RunsWith(config, stored) /\ defaultName' = Preferred(config)
    /\ rag' = IF ok THEN 0 ELSE NoManager
    /\ openRags' = IF ok THEN {0} ELSE {}
    /\ stale' = FALSE
    /\ UNCHANGED <<config, stored, closed, handler, failed, overlapped>>

ProvidersInit ==
    /\ config = Config(NoProviders, NoDefault)
    /\ stored = [t \in Types |-> NoApiKey]
    /\ manager = NoManager /\ rag = NoManager
    /\ running = [t \in Types |-> NotRunning] /\ defaultName = NoDefault
    /\ openRags = {} /\ closed = {}
    /\ handler = [h \in Handlers |-> Waiting]
    /\ built = 0
    /\ stale = FALSE /\ failed = FALSE /\ overlapped = FALSE

ProvidersNext ==
    \/ \E t \in Types, state \in {"enabled", "disabled"} :
          Create(t, state) \/ Update(t, state) \/ Switch(t, state)
    \/ \E t \in Types : Delete(t) \/ SetDefault(t) \/ RemoveKey(t)
    \/ \E h \in Handlers :
          (\E ok \in BOOLEAN : LoadRag(h, ok)) \/ CloseRag(h) \/ CloseManager(h)
    \/ ProcessEnds \/ (\E ok \in BOOLEAN : Start(ok))

-----------------------------------------------------------------------------
(* Properties.                                                             *)

\* The manager runs what is saved, with the keys that are saved, and no key
\* outlives its provider (reload_provider_manager: "Provider configuration
\* edits apply immediately"; delete_provider_route: "Remove a provider and its
\* stored credential"): but that the next reload puts the manager right when a
\* handler has failed halfway or a key was removed, and that nothing removes a
\* key such a failure has left behind.
ManagerIsCurrent ==
    /\ Up /\ ~ stale => running = RunsWith(config, stored)
    /\ ~ failed => \A t \in Types : stored[t] # NoApiKey => Has(t)

\* When no reload is under way, the manager in use is open and every other is
\* closed; the RAG service in use was built with it, and no other RAG service is
\* open, unless two reloads overlapped: the first to begin may be the last to
\* put its RAG service in place.
RagUsesTheManager ==
    (Up /\ Quiet) =>
        /\ closed = 0..built - 2
        /\ ~ overlapped => rag \in {NoManager, manager} /\ openRags \subseteq {rag}

\* The console shows each provider as it is saved, the list and the detail alike
\* (list_providers: "Enabled providers carry a live summary from the running
\* manager ... disabled providers are described from the configuration file"),
\* and whoever it shows as the enabled default answers what it is able to; no
\* one disabled ever does, and there is an answer if anyone enabled is able
\* (get_for_capability: "explicitly preferred name, the configured default, then
\* any configured provider"): but that files a failure left may say otherwise.
ConsoleShowsWhoAnswers ==
    (Up /\ ~ stale) =>
        /\ \A t \in Types :
              /\ ListedAs(t) = DetailOf(t)
              /\ ListedAs(t) = (IF Has(t)
                    THEN ConsoleEntry(config.provider[t] = "enabled", config.default = t,
                               stored[t] # NoApiKey)
                    ELSE NotListed)
        /\ \A able \in SUBSET Types :
              LET usable == {t \in able : config.provider[t] = "enabled"} IN
              /\ \A t \in usable :
                    /\ ListedAs(t).default => ProviderFor(NoDefault, able) = {t}
                    /\ ProviderFor(t, able) = {t}
              /\ ProviderFor(NoDefault, able) \subseteq usable
              /\ usable # {} => ProviderFor(NoDefault, able) # {}
              /\ \A declared \in SUBSET able :
                 LET chosen == EmbedderFor(NoDefault, declared, able)
                 IN  chosen \subseteq usable /\ (usable # {} => chosen # {})

\* The test of a saved provider that is enabled passes exactly when the copilot,
\* through its manager, would be answered with no key typed anew, and a refused
\* key is never called anything else (test_provider_chat: "a ``ok: true`` result
\* guarantees the live /chat/stream path can produce a real reply"): the two take the key from
\* different places, at different times.
TestsTellTheTruth ==
    (Up /\ ~ stale) =>
        \A t \in {u \in Types : config.provider[u] = "enabled"},
           accepts \in SUBSET (ApiKeys \cup {NoApiKey}), rest \in ProbeErrors, words \in Words :
           LET live == UpstreamSays(running[t], accepts, rest)
               test == TestOf(t, NoApiKey, TRUE, accepts, rest, words)
           IN  /\ test = "ok" <=> live = "none"
               /\ test = "authentication_failed" <=> live = "authentication"

\* All four, once a reload is over: what the console saved is what it shows, and
\* what answers.
ProvidersAreCurrent ==
    ManagerIsCurrent /\ RagUsesTheManager /\ ConsoleShowsWhoAnswers /\ TestsTellTheTruth
=============================================================================
