------------------------------ MODULE Collection ------------------------------
(***************************************************************************)
(* One collection of a router's state: every collector asks its sources, in *)
(* the order its code prefers them, and the answers are merged into one     *)
(* DeviceSnapshot.  A source is a ubus object, a command or a file; it is   *)
(* silent when the session fails under it, or when the firmware does not    *)
(* have it: the collectors cannot tell which, and go on with the next       *)
(* source or with a default.  A collector that cannot read an answer raises *)
(* and its section is left out.                                            *)
(*                                                                         *)
(* The router has a LAN bridge with one wired port, an uplink or none, and  *)
(* a radio or none; two clients, "desk" on the wired port and "phone" on    *)
(* the radio.  Parsing is left out, and so are the values no rule of the    *)
(* backend looks at.  Two failures at most come together, unless all of     *)
(* what follows a source fails with it.                                    *)
(***************************************************************************)
EXTENDS Integers, Sequences

VARIABLES
    device,         \* the router as it is
    silent,         \* sources without an answer in this collection
    broken,         \* collectors that raised in it
    report          \* the DeviceSnapshot, or NoReport

collectionVars == <<device, silent, broken, report>>

\* The sources in the order in which they are asked first.
Sources == <<"system info", "cpuinfo", "loadavg", "proc stat", "meminfo", "df", "dump", "devices",
             "addresses", "routes", "routes6", "route dump", "resolv.conf", "uci firewall",
             "wifi status", "uci wireless", "live wireless", "iw", "station dump", "leases", "lease file", "arp",
             "neighbors", "uci dhcp", "apk", "opkg", "board">>
SourceNames == {Sources[i] : i \in 1..Len(Sources)}

\* The collectors that an answer of another shape makes raise, and whose answer.
Misread == [cpu |-> "system info", memory |-> "meminfo", storage |-> "df", network |-> "dump",
            firewall |-> "uci firewall", wifi |-> "wifi status", kernel |-> "board"]

\* Load, configuration and uplink meet in no rule, and go together for the sake
\* of fewer routers.
Devices ==
    {d \in [uplink : {"none", "public", "private", "ipv6"},    \* the addresses of its WAN interface
            radio : {"none", "off", "down", "bridged", "odd", "apart"},
            level : {"normal", "high", "critical"},            \* of load, memory and storage
            plain : BOOLEAN] :                                 \* opkg, no rules, the default lease file
        /\ d.plain <=> d.level = "normal"
        /\ d.level = "critical" <=> d.uplink = "none"
        /\ d.level = "normal" <=> d.uplink = "public"}

\* The access point's interface: in the LAN bridge, there with a name no pattern
\* knows, or in a bridge of its own.
OnAir(d) == d.radio \in {"bridged", "odd", "apart"}
AccessPoint(d) == IF d.radio = "odd" THEN "guest" ELSE "phy0-ap0"
HasInterface(d) == OnAir(d) \/ d.radio = "down"
Members(d) ==
    [bridge \in {"br-lan"} \cup (IF d.radio = "apart" THEN {"br-guest"} ELSE {}) |->
        IF bridge = "br-guest" THEN {AccessPoint(d)}
        ELSE {"lan1"} \cup (IF d.radio \in {"down", "bridged", "odd"} THEN {AccessPoint(d)} ELSE {})]

NoReport == [none |-> TRUE]
Speaks(s) == s \notin silent

-----------------------------------------------------------------------------
(* CPU, memory, storage.                                                   *)

Cores == 4
Percent(kind, level) ==
    CASE level = "normal" -> 20
      [] level = "high" -> IF kind = "storage" THEN 85 ELSE 75
      [] level = "critical" -> IF kind = "storage" THEN 95 ELSE 90
LoadOf(level) == CASE level = "normal" -> 2 [] level = "high" -> Cores [] level = "critical" -> 2 * Cores

Unknown == -1

\* One core and no load where nothing is known.
Cpu ==
    [usage |-> IF Speaks("proc stat") THEN Percent("cpu", device.level) ELSE Unknown,
     cores |-> IF Speaks("cpuinfo") THEN Cores ELSE 1,
     load |-> IF Speaks("system info") \/ Speaks("loadavg") THEN LoadOf(device.level) ELSE 0]

\* No memory at all where nothing is known.
Memory ==
    IF Speaks("meminfo") \/ Speaks("system info")
      THEN [total |-> 100, used |-> Percent("memory", device.level)]
      ELSE [total |-> 0, used |-> 0]

\* The firmware image is full by nature.
Storage ==
    IF ~Speaks("df") THEN {}
    ELSE {[mount |-> "/rom", image |-> TRUE, percent |-> 100],
          [mount |-> "/overlay", image |-> FALSE, percent |-> Percent("storage", device.level)]}

-----------------------------------------------------------------------------
(* Network.                                                                *)

Address(family, scope) == [family |-> family, scope |-> scope]
\* The addresses of the uplink.
Uplinks(d) ==
    CASE d.uplink = "none" -> {}
      [] d.uplink = "ipv6" -> {Address("ipv6", "public")}
      [] OTHER -> {Address("ipv4", d.uplink)}

\* What netifd knows as an interface, with its device and protocol.
Logical(d) ==
    {[name |-> "loopback", device |-> "lo", proto |-> "static"],
     [name |-> "lan", device |-> "br-lan", proto |-> "static"]}
    \cup (IF d.uplink = "none" THEN {} ELSE {[name |-> "wan", device |-> "eth0", proto |-> "dhcp"]})
    \cup (IF d.radio = "apart" THEN {[name |-> "guests", device |-> "br-guest", proto |-> "static"]} ELSE {})

AddressesOf(d, dev) == IF dev = "eth0" THEN Uplinks(d) ELSE {Address("ipv4", "private")}
MembersOf(d, dev) == IF dev \in DOMAIN Members(d) THEN Members(d)[dev] ELSE {}

\* The devices' state is merged in; devices no interface names stand for themselves.
FromNetifd ==
    {[name |-> l.name, device |-> l.device, proto |-> l.proto,
      addresses |-> AddressesOf(device, l.device), told |-> TRUE, traffic |-> Speaks("devices"),
      members |-> IF Speaks("devices") THEN MembersOf(device, l.device) ELSE {}] : l \in Logical(device)}
    \cup (IF Speaks("devices")
            THEN {[name |-> dev, device |-> dev, proto |-> "none", addresses |-> {}, told |-> TRUE,
                   traffic |-> TRUE, members |-> {}] : dev \in UNION {Members(device)[b] : b \in DOMAIN Members(device)}}
            ELSE {})

\* Without netifd: the kernel's names and addresses, those of the loopback and
\* the links among them, and nothing about which are public.
FromKernel ==
    IF ~Speaks("addresses") THEN {}
    ELSE {[name |-> l.device, device |-> "none", proto |-> "none",
           addresses |-> AddressesOf(device, l.device) \cup {Address("ipv6", "link")}, told |-> FALSE,
           traffic |-> FALSE, members |-> {}] : l \in Logical(device)}

Network == IF Speaks("dump") THEN FromNetifd ELSE FromKernel

\* The device of the default route, from the first table that has one.
RouteDevice ==
    IF device.uplink \in {"public", "private"} /\ (Speaks("routes") \/ Speaks("route dump")) THEN "eth0"
    ELSE IF device.uplink = "ipv6" /\ Speaks("routes6") THEN "eth0"
    ELSE "none"

WanProtos == {"dhcp", "pppoe", "lte"}

\* The resolvers netifd learned; failing these resolv.conf, whose first is the
\* router itself.
NetworkStatus ==
    [wan |-> IF RouteDevice # "none" THEN RouteDevice
             ELSE IF \E i \in Network : i.proto \in WanProtos
                    THEN (CHOOSE i \in Network : i.proto \in WanProtos).name ELSE "none",
     dns |-> IF Speaks("dump") /\ device.uplink # "none" THEN {"upstream"}
             ELSE IF Speaks("resolv.conf") THEN {"router"} ELSE {}]

-----------------------------------------------------------------------------
(* Wireless.                                                               *)

StatusTells == Speaks("wifi status") /\ device.radio # "none"
UciTells == Speaks("uci wireless") /\ device.radio # "none"
\* One command finds the interfaces, whether they are up and who is associated.
Live == Speaks("live wireless") /\ HasInterface(device)
LiveInterfaces == IF Live THEN {AccessPoint(device)} ELSE {}

StationsOnAir == IF OnAir(device) THEN 1 ELSE 0
LiveStations == IF Live /\ Speaks("iw") THEN StationsOnAir ELSE 0

\* UciTells radios, up when an interface of theirs is; and the interfaces'
\* own radios, unless such a radio claimed them.
RadiosFromUci ==
    (IF UciTells THEN {[name |-> "radio0", up |-> Live /\ OnAir(device), stations |-> LiveStations]} ELSE {})
    \cup (IF Live /\ ~(UciTells /\ OnAir(device))
            THEN {[name |-> "phy0", up |-> OnAir(device), stations |-> LiveStations]} ELSE {})

Radios ==
    IF StatusTells THEN {[name |-> "radio0", up |-> OnAir(device), stations |-> StationsOnAir]}
    ELSE RadiosFromUci

\* Associated clients and the interface they are on: ubus tells it when the
\* radio has one interface only, which it has.
Stations ==
    IF ~OnAir(device) THEN {}
    ELSE IF StatusTells THEN {[mac |-> "phone", interface |-> AccessPoint(device)]}
    ELSE IF Live /\ Speaks("iw") /\ Speaks("station dump") THEN {[mac |-> "phone", interface |-> AccessPoint(device)]}
    ELSE {}

\* Stations of the configured network.
NetworkStations ==
    IF StatusTells THEN (IF Speaks("iw") /\ Speaks("station dump") THEN StationsOnAir ELSE 0) ELSE LiveStations

Wifi == [radios |-> Radios, clients |-> Stations, networks |-> UciTells,
         counted |-> IF UciTells THEN NetworkStations ELSE 0]
NoWifi == [radios |-> {}, clients |-> {}, networks |-> FALSE, counted |-> 0]

-----------------------------------------------------------------------------
(* Clients, firewall, packages, identity.                                  *)

Present == {"desk"} \cup (IF OnAir(device) THEN {"phone"} ELSE {})

\* The lease file of the clients section is the default one, wherever dnsmasq
\* has been told to keep it.
LeasesFrom(file) ==
    IF Speaks("leases") \/ (Speaks("lease file") /\ file) THEN Present ELSE {}
Clients == LeasesFrom(device.plain)
Dhcp == [leases |-> LeasesFrom(device.plain \/ Speaks("uci dhcp")),
         dns |-> IF Speaks("uci dhcp") /\ ~device.plain THEN {"handed out"} ELSE {}]

\* The bridge a client is seen on.
SeenOn(c) == IF c = "phone" /\ device.radio = "apart" THEN "br-guest" ELSE "br-lan"
Seen(source) == IF Speaks(source) THEN {[mac |-> c, interface |-> SeenOn(c)] : c \in Present} ELSE {}

Firewall == IF Speaks("uci firewall") /\ ~device.plain THEN {"rule"} ELSE {}

\* apk when its binary is found.
PackageList == IF device.plain THEN (IF Speaks("opkg") THEN {"package"} ELSE {})
            ELSE IF Speaks("apk") THEN {"package"} ELSE {}

Identity == Speaks("board")

-----------------------------------------------------------------------------
(* How a client is connected.                                              *)

Air == {"phy0-ap0"}     \* interface names a pattern knows
Wire == {"lan1", "eth0"}


\* A bridge is what all its members are.
Mixed(media) ==
    IF media = {"wireless"} THEN "wireless" ELSE IF media = {"wired"} THEN "wired" ELSE "unknown"

MemberMedium(member, wireless) ==
    IF member \in wireless \cup Air THEN "wireless" ELSE IF member \in Wire THEN "wired" ELSE "unknown"

InterfaceMedium(interface, wireless, network) ==
    LET members == UNION {i.members : i \in {j \in network : interface \in {j.name, j.device}}}
    IN  IF members = {} THEN MemberMedium(interface, wireless)
        ELSE Mixed({MemberMedium(x, wireless) : x \in members})

\* A station is wireless; others are what the interfaces they are seen on are,
\* and wired only when all of these are.
ClassifyClientMedia(stations, seen, wireless, network) ==
    LET known == wireless \cup {s.interface : s \in stations}
        medium(mac) ==
            LET media == {InterfaceMedium(e.interface, known, network) : e \in {f \in seen : f.mac = mac}}
            IN  IF mac \in {s.mac : s \in stations} \/ "wireless" \in media THEN "wireless"
                ELSE IF media = {"wired"} THEN "wired" ELSE "unknown"
    IN  [mac \in {s.mac : s \in stations} \cup {e.mac : e \in seen} |-> medium(mac)]

-----------------------------------------------------------------------------
(* The snapshot.                                                           *)

\* The answer of a collector, or what stands for it when it raised.
Section(name, answer, absent) == IF name \in broken THEN absent ELSE answer

\* The live interfaces are known even when the wireless section is lost; a lost
\* identity is asked for again, in vain.
BuildSnapshot ==
    LET network == Section("network", Network, {})
        wifi == Section("wifi", Wifi, NoWifi)
        arp == Section("arp", Seen("arp"), {})
        neighbors == Section("neighbors", Seen("neighbors"), {})
    IN  [cpu |-> IF "cpu" \in broken THEN {} ELSE {Cpu},
         memory |-> IF "memory" \in broken THEN {} ELSE {Memory},
         storage |-> Section("storage", Storage, {}),
         network |-> network,
         status |-> IF "network" \in broken THEN {} ELSE {NetworkStatus},
         firewall |-> Section("firewall", Firewall, {}),
         wifi |-> wifi,
         clients |-> Section("clients", Clients, {}),
         arp |-> arp, neighbors |-> neighbors,
         media |-> ClassifyClientMedia(wifi.clients, Seen("leases") \cup arp \cup neighbors,
                                        LiveInterfaces, network),
         dhcp |-> Section("dhcp", Dhcp, [leases |-> {}, dns |-> {}]),
         packages |-> Section("packages", PackageList, {}),
         kernel |-> Section("kernel", Identity, FALSE),
         errors |-> broken]

Failures ==
    LET tails == {{Sources[j] : j \in i..Len(Sources)} : i \in 1..Len(Sources)}
        all == SourceNames \cup DOMAIN Misread
    IN  {{}} \cup {{f, g} : f \in all, g \in all} \cup tails

Collect ==
    /\ report = NoReport
    /\ \E f \in Failures :
        /\ silent' = f \cap SourceNames
        /\ broken' = f \cap DOMAIN Misread
        /\ \A c \in broken' : Misread[c] \notin silent'
    /\ UNCHANGED device
    /\ report' = BuildSnapshot'

\* Failures are those of the report; a collection leaves the device as it is.
CollectionTypeOK ==
    /\ device \in Devices
    /\ silent \subseteq SourceNames /\ broken \subseteq DOMAIN Misread
    /\ report = NoReport \/ report.errors = broken

CollectionInit ==
    /\ device \in Devices
    /\ silent = {} /\ broken = {} /\ report = NoReport
=============================================================================
