-------------------------------- MODULE Advice --------------------------------
(***************************************************************************)
(* What the assistant is told about the router for one question: the parts  *)
(* of the snapshot the words of the question select, the list of what data  *)
(* there is, and what the tools' results are diagnosed and recommended to   *)
(* be.  All of it are rules over the snapshot of one collection.           *)
(***************************************************************************)
EXTENDS Collection, FiniteSets

-----------------------------------------------------------------------------
(* What data there is.                                                     *)

Addresses(r) == UNION {i.addresses : i \in r.network}
OfFamily(r, family) == {a \in Addresses(r) : a.family = family}
IsLan(i) == i.name \in {"lan", "br-lan"}

\* The first that holds: its collection failed, it is there, some of it is.
Availability(failed, found, guessed) ==
    IF failed THEN "error" ELSE IF found THEN "available" ELSE IF guessed THEN "unknown" ELSE "not_available"

BuildAvailabilityManifest(r) ==
    LET errored(c) == c \in r.errors
        v4 == OfFamily(r, "ipv4")
        wanV4 == \E i \in r.network : i.proto \in WanProtos /\ \E a \in i.addresses : a.family = "ipv4"
        publicV4 == \E i \in r.network : i.told /\ Address("ipv4", "public") \in i.addresses
        lanV4 == \E i \in r.network : \E a \in i.addresses :
                    a.family = "ipv4" /\ (IsLan(i) \/ a.scope = "private")
        stations == r.wifi.clients # {} \/ \E x \in r.wifi.radios : x.stations > 0
        dns == IF \E s \in r.status : s.dns # {} THEN TRUE ELSE r.dhcp.dns # {}
    IN  [system_info |-> Availability(errored("kernel"), r.kernel, FALSE),
         cpu |-> Availability(errored("cpu"), \E c \in r.cpu : c.usage # Unknown, r.cpu # {}),
         memory |-> Availability(errored("memory"), r.memory # {}, FALSE),
         disk |-> Availability(errored("storage"), r.storage # {}, FALSE),
         public_ip |-> Availability(errored("network"), publicV4 \/ wanV4, v4 # {}),
         lan_ip |-> Availability(errored("network"), lanV4, v4 # {}),
         ipv6 |-> Availability(errored("network"), OfFamily(r, "ipv6") # {}, FALSE),
         \* no collector has the name this one is looked for under
         dns |-> Availability(errored("network_status"), dns, FALSE),
         connected_clients |-> Availability(errored("clients") \/ errored("arp"),
                                 r.clients # {} \/ r.arp # {} \/ r.wifi.clients # {}, FALSE),
         wifi_clients |-> Availability(errored("wifi"), stations, FALSE),
         firewall_rules |-> Availability(errored("firewall"), r.firewall # {}, FALSE),
         traffic |-> Availability(errored("network"), \E i \in r.network : i.traffic, FALSE)]

-----------------------------------------------------------------------------
(* The focused context.                                                    *)

\* Words of questions, with the sections and the tools their keywords are part
\* of, whether or not the word is the keyword.
Selects ==
    [wifi |-> [sections |-> {"wifi"}, tools |-> {"wifi"}],
     clients |-> [sections |-> {"clients"}, tools |-> {"wifi"}],
     login |-> [sections |-> {"logs"}, tools |-> {}],
     equipment |-> [sections |-> {"network"}, tools |-> {"network"}],
     program |-> [sections |-> {"memory"}, tools |-> {"memory"}],
     disk |-> [sections |-> {"storage"}, tools |-> {"storage"}],
     load |-> [sections |-> {"cpu"}, tools |-> {"cpu"}],
     router |-> [sections |-> {"kernel"}, tools |-> {"system"}],
     packages |-> [sections |-> {"packages"}, tools |-> {"system"}],
     firewall |-> [sections |-> {"firewall"}, tools |-> {"network"}],
     arp |-> [sections |-> {"arp"}, tools |-> {}],
     dhcp |-> [sections |-> {"dhcp"}, tools |-> {"network"}],
     hello |-> [sections |-> {}, tools |-> {}]]
Questions == {{v, w} : v \in DOMAIN Selects, w \in DOMAIN Selects}

FallbackSections == {"kernel", "network_status", "cpu", "memory"}
SelectSections(question) ==
    LET selected == UNION {Selects[w].sections : w \in question}
    IN  IF selected = {} THEN FallbackSections ELSE selected

SectionsAsked == {SelectSections(q) : q \in Questions}

ClientSections == {"clients", "wifi", "arp", "neighbors", "dhcp"}


\* What of a section that identifies somebody is left in; of the others nothing
\* is: interfaces lose their addresses, packages their descriptions.
Prune == [wifi |-> {"mac"}, clients |-> {"mac", "name"}, arp |-> {"mac"}, neighbors |-> {"mac"},
          dhcp |-> {"mac", "name"}, logs |-> {"messages"}]

\* A section with nothing in it: some are left out, others are there and empty.
Absent(r, section) ==
    CASE section = "cpu" -> r.cpu = {} [] section = "memory" -> r.memory = {}
      [] section = "network_status" -> r.status = {} [] section = "clients" -> r.clients = {}
      [] section = "arp" -> r.arp = {} [] section = "packages" -> r.packages = {}
      [] OTHER -> FALSE

BuildFocusedContext(r, sections) ==
    LET given == {s \in sections : ~Absent(r, s)}
        media == sections \cap ClientSections # {} /\ DOMAIN r.media # {}
    IN  [sections |-> given \cup (IF media THEN {"client_media"} ELSE {}),
         identifying |-> (UNION {Prune[s] : s \in given \cap DOMAIN Prune})
                         \cup (IF media THEN {"mac"} ELSE {}),
         availability |-> BuildAvailabilityManifest(r)]

-----------------------------------------------------------------------------
(* The tools' results and their diagnosis.                                 *)

SelectTools(question) == UNION {Selects[w].tools : w \in question}
ToolsAsked == {SelectTools(q) : q \in Questions} \ {{}}

NoMemory == [percent |-> Unknown]

\* The summary every tool takes its part from.
BuildContext(r) ==
    [system |-> r.kernel,
     cpu |-> IF r.cpu = {} THEN [usage |-> Unknown, cores |-> 0, load |-> 0] ELSE CHOOSE c \in r.cpu : TRUE,
     memory |-> IF r.memory = {} THEN NoMemory
                ELSE LET m == CHOOSE x \in r.memory : TRUE
                     IN  [percent |-> IF m.total = 0 THEN 0 ELSE (m.used * 100) \div m.total],
     storage |-> r.storage,
     network |-> r.network,
     wifi |-> [radios |-> r.wifi.radios, stations |-> \E x \in r.wifi.radios : x.stations > 0]]

\* Nothing at all: the identity, the load and the wireless summary never are.
Nothing(context, tool) ==
    CASE tool = "memory" -> context.memory = NoMemory
      [] tool \in {"storage", "network"} -> context[tool] = {}
      [] OTHER -> FALSE

Finding(subject, severity) == [subject |-> subject, severity |-> severity]
MutantGrade(subject, value, warning, critical) ==
    IF value > critical THEN {Finding(subject, "critical")}
    ELSE IF value > warning THEN {Finding(subject, "warning")} ELSE {}

\* The thresholds belong to the range they begin.
Grade(subject, value, warning, critical) ==
    IF value >= critical THEN {Finding(subject, "critical")}
    ELSE IF value >= warning THEN {Finding(subject, "warning")} ELSE {}

IsWan(i) == i.name \in {"wan", "wan6"} \/ i.proto \in WanProtos

\* Only tools that were asked say anything.
Diagnose(context, tools) ==
    LET asked(t) == t \in tools
        cpu == context.cpu
        wifi == context.wifi
    IN  (IF \A t \in tools : Nothing(context, t) THEN {Finding("offline", "critical")} ELSE {})
        \cup (IF asked("cpu") THEN Grade("cpu", cpu.usage, 75, 90) ELSE {})
        \cup (IF asked("memory") THEN Grade("memory", context.memory.percent, 75, 90) ELSE {})
        \cup (IF asked("storage")
                THEN UNION {Grade("storage", m.percent, 85, 95) : m \in {x \in context.storage : ~x.image}} ELSE {})
        \cup (IF asked("cpu") /\ cpu.cores > 0 THEN Grade("load", cpu.load, cpu.cores, 2 * cpu.cores) ELSE {})
        \cup (IF asked("network") /\ context.network # {} /\ ~\E i \in context.network : IsWan(i)
                THEN {Finding("wan", "warning")} ELSE {})
        \cup (IF asked("wifi") /\ wifi.radios = {} /\ ~wifi.stations THEN {Finding("wifi", "warning")} ELSE {})
        \cup (IF (asked("system") /\ ~context.system) \/ (asked("cpu") /\ cpu.usage = Unknown)
                    \/ (asked("memory") /\ context.memory = NoMemory)
                THEN {Finding("unknown", "info")} ELSE {})

-----------------------------------------------------------------------------
(* Recommendations.                                                        *)

Groups == [connectivity |-> {"offline"}, cpu |-> {"cpu", "load"}, memory |-> {"memory"},
           storage |-> {"storage"}, wan |-> {"wan"}, wifi |-> {"wifi"}, data_quality |-> {"unknown"}]
Priority(findings) ==
    IF \E f \in findings : f.severity = "critical" THEN "urgent"
    ELSE IF \E f \in findings : f.severity = "warning" THEN "high" ELSE "medium"

\* One for every group with a finding, as urgent as the worst of them.
Recommend(findings) ==
    LET of(g) == {f \in findings : f.subject \in Groups[g]}
    IN  {[id |-> g, priority |-> Priority(of(g))] : g \in {h \in DOMAIN Groups : of(h) # {}}}

-----------------------------------------------------------------------------
(* Properties.                                                             *)

\* What the device really is, in the terms of the list and of the findings.
Really ==
    [system_info |-> TRUE, cpu |-> TRUE, memory |-> TRUE, disk |-> TRUE,
     public_ip |-> device.uplink \in {"public", "private"},
     dns |-> TRUE, connected_clients |-> TRUE, wifi_clients |-> OnAir(device),
     firewall_rules |-> ~device.plain, traffic |-> TRUE]
Troubled(f) ==
    CASE f.subject \in {"cpu", "memory", "storage", "load"} ->
            device.level = (IF f.severity = "critical" THEN "critical" ELSE "high")
      [] f.subject = "wan" -> device.uplink = "none"
      [] f.subject = "wifi" -> device.radio = "none"
      [] f.subject \in {"offline", "unknown"} -> FALSE

\* What failed that a wrong finding can come from.
Excuses(f) ==
    CASE f.subject = "load" -> "cpuinfo" \in silent
      [] f.subject = "wan" -> "dump" \in silent
      [] f.subject = "wifi" -> "wifi" \in broken \/ {"wifi status", "uci wireless"} \subseteq silent
      [] f.subject \in {"offline", "unknown"} -> silent \cup broken # {}
      [] OTHER -> FALSE

\* What the assistant is told is so, whatever fails in a collection.  Data it is
\* told to be there the router has, and data it is told not to be there the
\* router has not or some source failed; a finding is true of the router or
\* comes from a failure of its own source (router_diagnosis: "Never diagnose
\* missing WiFi from absent data"), no trouble of a router whose sources all
\* answer goes unnoticed when it is asked about, and the most severe finding has
\* a recommendation as urgent.  (Memory is told to be there with nothing known
\* of it, and an IPv6 or a LAN address for the loopback's.)
AdviceIsGrounded ==
    report # NoReport =>
        LET told == BuildAvailabilityManifest(report)
            well == silent = {} /\ broken = {}
        IN  /\ \A c \in DOMAIN Really :
                /\ told[c] = "available" => Really[c]
                /\ told[c] \in {"not_available", "unknown"} => ~Really[c] \/ ~well
                /\ told[c] = "error" => broken # {}
            /\ \A tools \in ToolsAsked :
                LET findings == Diagnose(BuildContext(report), tools)
                    advice == Recommend(findings)
                IN  /\ \A f \in findings : Troubled(f) \/ Excuses(f)
                    /\ well /\ device.level # "normal" /\ "cpu" \in tools =>
                            {"cpu", "load"} \subseteq {f.subject : f \in findings}
                    /\ well /\ device.radio = "none" /\ "wifi" \in tools =>
                            Finding("wifi", "warning") \in findings
                    /\ Cardinality(advice) <= Cardinality({f.subject : f \in findings})
                    /\ (\E f \in findings : f.severity = "critical")
                            <=> \E a \in advice : a.priority = "urgent"

\* A client is called wired or wireless only when it is, however the access
\* point is named and bridged and whatever failed ("nothing is falsely
\* classified"); and what identifies clients is told only to questions about
\* them, log messages only to those about logs.
ClientsAreRight ==
    report # NoReport =>
        /\ \A c \in DOMAIN report.media :
            /\ report.media[c] = "wireless" => c = "phone"
            /\ report.media[c] = "wired" => c = "desk"
        /\ \A sections \in SectionsAsked :
            LET context == BuildFocusedContext(report, sections)
            IN  /\ context.identifying \cap {"mac", "name"} # {} => sections \cap ClientSections # {}
                /\ "messages" \in context.identifying => "logs" \in sections
=============================================================================
