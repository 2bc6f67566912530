------------------------------- MODULE Services -------------------------------
(***************************************************************************)
(* Parts of the system that do not act on each other, side by side: a       *)
(* behaviour is one of one part, while the others stay as they begin.       *)
(***************************************************************************)
EXTENDS RouterConfig, RouterCaches, KnowledgeIndex, BackendBoot, ProviderAdmin,
        Conversations, Advice, Prompts, Sessions, SpeedTest, Backups, TLC

VARIABLES part      \* the part the behaviour is about

vars == <<part, configVars, cacheVars, knowledgeVars, bootVars, providerVars, chatVars,
          collectionVars, promptVars, sessionVars, speedVars, backupVars>>

Parts == {"configuration", "caches", "knowledge", "boot", "providers", "conversations", "collection",
          "prompts", "sessions", "speed", "backups"}

\* A part that is not looked at begins in one of its initial states; the option
\* of the section is always set at first, as a job may delete it.
Init ==
    /\ part \in Parts
    /\ ConfigInit /\ staged.option = "1" /\ (part # "configuration" => target = "network")
    /\ CachesInit /\ (part # "caches" => cache = "tools" /\ active = NoRouter)
    /\ KnowledgeInit /\ (part # "knowledge" => file = NoDocuments)
    /\ BootInit /\ (part # "boot" =>
            /\ settings = [vault |-> "explicit", admin |-> FALSE, readonly |-> FALSE]
            /\ keyFile = NoFile /\ credential = OfRouter(NoCredential))
    /\ ProvidersInit /\ ChatInit
    /\ CollectionInit /\ (part # "collection" => device = CHOOSE d \in Devices : TRUE)
    /\ PromptsInit /\ (part # "prompts" => question = 2)
    /\ SessionsInit /\ (part # "sessions" => accounts = {})
    /\ SpeedInit /\ (part # "speed" => targets = {})
    /\ BackupsInit /\ (part # "backups" => ~ repeats)

Next ==
    \/ /\ part = "configuration" /\ ConfigNext
       /\ UNCHANGED <<part, cacheVars, knowledgeVars, bootVars, providerVars, chatVars,
                      collectionVars, promptVars, sessionVars, speedVars, backupVars>>
    \/ /\ part = "caches" /\ CachesNext
       /\ UNCHANGED <<part, configVars, knowledgeVars, bootVars, providerVars, chatVars,
                      collectionVars, promptVars, sessionVars, speedVars, backupVars>>
    \/ /\ part = "knowledge" /\ KnowledgeNext
       /\ UNCHANGED <<part, configVars, cacheVars, bootVars, providerVars, chatVars,
                      collectionVars, promptVars, sessionVars, speedVars, backupVars>>
    \/ /\ part = "boot" /\ BootNext
       /\ UNCHANGED <<part, configVars, cacheVars, knowledgeVars, providerVars, chatVars,
                      collectionVars, promptVars, sessionVars, speedVars, backupVars>>
    \/ /\ part = "providers" /\ ProvidersNext
       /\ UNCHANGED <<part, configVars, cacheVars, knowledgeVars, bootVars, chatVars,
                      collectionVars, promptVars, sessionVars, speedVars, backupVars>>
    \/ /\ part = "conversations" /\ ChatNext
       /\ UNCHANGED <<part, configVars, cacheVars, knowledgeVars, bootVars, providerVars,
                      collectionVars, promptVars, sessionVars, speedVars, backupVars>>
    \/ /\ part = "collection" /\ Collect
       /\ UNCHANGED <<part, configVars, cacheVars, knowledgeVars, bootVars, providerVars,
                      chatVars, promptVars, sessionVars, speedVars, backupVars>>
    \/ /\ part = "prompts" /\ PromptsNext
       /\ UNCHANGED <<part, configVars, cacheVars, knowledgeVars, bootVars, providerVars,
                      chatVars, collectionVars, sessionVars, speedVars, backupVars>>
    \/ /\ part = "sessions" /\ SessionsNext
       /\ UNCHANGED <<part, configVars, cacheVars, knowledgeVars, bootVars, providerVars,
                      chatVars, collectionVars, promptVars, speedVars, backupVars>>
    \/ /\ part = "speed" /\ SpeedNext
       /\ UNCHANGED <<part, configVars, cacheVars, knowledgeVars, bootVars, providerVars,
                      chatVars, collectionVars, promptVars, sessionVars, backupVars>>
    \/ /\ part = "backups" /\ BackupsNext
       /\ UNCHANGED <<part, configVars, cacheVars, knowledgeVars, bootVars, providerVars,
                      chatVars, collectionVars, promptVars, sessionVars, speedVars>>

Spec == Init /\ [][Next]_vars

\* The actors of every part are the same two model values, and so are the things
\* they act on: a part that is at rest does not tell them apart.
Symmetry == Permutations(Jobs) \cup Permutations(Routers)

TypeOK ==
    /\ part \in Parts
    /\ ConfigTypeOK /\ CachesTypeOK /\ KnowledgeTypeOK /\ BootTypeOK /\ ProvidersTypeOK
    /\ ChatTypeOK /\ CollectionTypeOK /\ PromptsTypeOK /\ SessionsTypeOK /\ SpeedTypeOK /\ BackupsTypeOK

\* Nobody loses access, nobody is taken for someone else: see BootKeepsAccess for
\* the accounts and credentials of the database, SessionsAreHonest for the
\* sessions of the process.
AccessIsKept == BootKeepsAccess /\ SessionsAreHonest

\* What is kept so as not to be asked for again is current: see CachesAreCurrent
\* for the caches of what routers answered, LatestIsNewest for the result of the
\* speed test.
KeptAnswersAreCurrent == CachesAreCurrent /\ LatestIsNewest

\* What the copilot is told of a router is so: see AdviceIsGrounded for what is
\* diagnosed and recommended, ClientsAreRight for who is connected to it.
WhatIsToldIsSo == AdviceIsGrounded /\ ClientsAreRight
=============================================================================
