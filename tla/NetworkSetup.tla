---------------------------- MODULE NetworkSetup ----------------------------
(***************************************************************************)
(* The network options of start-up: InitParameterInteraction (the soft    *)
(* defaults one option implies for another), step 6 of AppInitMain (the   *)
(* reachability of networks, proxies, listening and binding) and the part *)
(* of step 11 that acts on the options (Tor control, discovery, UPnP,     *)
(* CConnman::Start).  Three steps in start-up order, one behaviour per    *)
(* command line.                                                           *)
(*                                                                         *)
(* An option is Unset until the user or a soft default gives it a value.  *)
(* SoftSetBoolArg only sets an option that is Unset; GetBoolArg reads the *)
(* default when it is Unset.  A list option (-bind, -whitebind, -connect, *)
(* -externalip) is abstracted to whether it is given.  A host name or    *)
(* address is "valid" when Lookup succeeds and yields a valid proxy.      *)
(***************************************************************************)
EXTENDS Naturals

CONSTANTS
    DefaultListen,               \* DEFAULT_LISTEN
    DefaultBlocksOnly,           \* DEFAULT_BLOCKSONLY
    DefaultWhitelistForceRelay,  \* DEFAULT_WHITELISTFORCERELAY
    DefaultListenOnion,          \* DEFAULT_LISTEN_ONION
    DefaultUpnp,                 \* DEFAULT_UPNP
    UserChoices,   \* for each boolean option, the values the user may give
    ProxyArgs,     \* values of -proxy tried: Unset, "0", "valid", "invalid"
    OnionArgs,     \* values of -onion tried, the same kinds
    OnlyNetArgs,   \* values of -onlynet tried: Unset or a set of networks
    Unset          \* the value of an option that nobody gave

BoolOpts == {"listen", "dnsseed", "upnp", "discover", "listenonion",
             "whitelistrelay", "blocksonly", "whitelistforcerelay"}
ListOpts == {"bind", "whitebind", "connect", "externalip"}
Nets     == {"ipv4", "ipv6", "onion"}
Addr     == {Unset, "0", "valid", "invalid"}

ASSUME NetworkAssumption ==
    /\ {DefaultListen, DefaultBlocksOnly, DefaultWhitelistForceRelay,
        DefaultListenOnion, DefaultUpnp} \subseteq BOOLEAN
    /\ UserChoices \in [BoolOpts -> SUBSET {Unset, TRUE, FALSE}]
    /\ ProxyArgs \subseteq Addr /\ OnionArgs \subseteq Addr
    /\ OnlyNetArgs \subseteq {Unset} \cup SUBSET Nets
    /\ Unset \notin BOOLEAN /\ Unset \notin {"0", "valid", "invalid"}

VARIABLES
    pc,           \* "interaction", "net", "start", "done", "failed"
    cfg,          \* the command line
    args,         \* the boolean options as GetBoolArg sees them now
    limited,      \* vfLimited: network -> unreachable
    proxied,      \* network -> a proxy is set for it
    fListen, fDiscover, fRelayTxes,
    torControl,   \* StartTorControl was called
    discovering,  \* Discover looks for local addresses
    portMapped    \* MapPort(true) was called

vars == <<pc, cfg, args, limited, proxied, fListen, fDiscover, fRelayTxes,
          torControl, discovering, portMapped>>

Config == [bools:   {b \in [BoolOpts -> {Unset, TRUE, FALSE}] :
                        \A o \in BoolOpts : b[o] \in UserChoices[o]},
           given:   SUBSET ListOpts,
           proxy:   ProxyArgs,
           onion:   OnionArgs,
           onlynet: OnlyNetArgs]

\* SoftSetBoolArg(o, v) for every option o of S.
Soft(a, S, v) == [o \in DOMAIN a |-> IF o \in S /\ a[o] = Unset THEN v ELSE a[o]]

\* GetBoolArg(o, default).
GetBool(a, o, default) == IF a[o] = Unset THEN default ELSE a[o]

Init ==
    /\ pc = "interaction"
    /\ cfg \in Config
    /\ args = cfg.bools
    /\ limited = [n \in Nets |-> FALSE]
    /\ proxied = [n \in Nets |-> FALSE]
    /\ fListen = FALSE /\ fDiscover = FALSE /\ fRelayTxes = FALSE
    /\ torControl = FALSE /\ discovering = FALSE /\ portMapped = FALSE

-----------------------------------------------------------------------------
(* InitParameterInteraction, one operator per block, in the code's order. *)

\* Mutant of BindRule: only -bind is looked at, -whitebind is forgotten.
BindRuleOnlyBind(a, c) ==
    IF "bind" \in c.given THEN Soft(a, {"listen"}, TRUE) ELSE a

\* -bind or -whitebind set -> -listen=1.
BindRule(a, c) ==
    IF c.given \cap {"bind", "whitebind"} # {} THEN Soft(a, {"listen"}, TRUE) ELSE a

\* -connect set -> -dnsseed=0, -listen=0.
ConnectRule(a, c) ==
    IF "connect" \in c.given THEN Soft(a, {"dnsseed", "listen"}, FALSE) ELSE a

\* Mutant of ProxyRule: -upnp is left to the -listen rule below.
ProxyRuleKeepUpnp(a, c) ==
    IF c.proxy # Unset THEN Soft(a, {"listen", "discover"}, FALSE) ELSE a

\* -proxy set (IsArgSet: -noproxy, i.e. -proxy=0, included) -> -listen=0,
\* -upnp=0, -discover=0.
ProxyRule(a, c) ==
    IF c.proxy # Unset THEN Soft(a, {"listen", "upnp", "discover"}, FALSE) ELSE a

\* -listen=0 -> -upnp=0, -discover=0, -listenonion=0.
ListenRule(a) ==
    IF ~GetBool(a, "listen", DefaultListen)
    THEN Soft(a, {"upnp", "discover", "listenonion"}, FALSE) ELSE a

\* -externalip set -> -discover=0.
ExternalIPRule(a, c) ==
    IF "externalip" \in c.given THEN Soft(a, {"discover"}, FALSE) ELSE a

\* -blocksonly=1 -> -whitelistrelay=0; then -whitelistforcerelay=1 ->
\* -whitelistrelay=1.
RelayRules(a) ==
    LET b == IF GetBool(a, "blocksonly", DefaultBlocksOnly)
             THEN Soft(a, {"whitelistrelay"}, FALSE) ELSE a
    IN  IF GetBool(b, "whitelistforcerelay", DefaultWhitelistForceRelay)
        THEN Soft(b, {"whitelistrelay"}, TRUE) ELSE b

\* Mutant of Interaction: the -listen=0 block runs before -connect and
\* -proxy have had their say.
InteractionListenFirst(c) ==
    RelayRules(ExternalIPRule(ProxyRule(ConnectRule(
        ListenRule(BindRule(c.bools, c)), c), c), c))

Interaction(c) ==
    RelayRules(ExternalIPRule(ListenRule(ProxyRule(ConnectRule(
        BindRule(c.bools, c), c), c)), c))

AppInitInteraction ==
    /\ pc = "interaction"
    /\ args' = Interaction(cfg)
    /\ pc' = "net"
    /\ UNCHANGED <<cfg, limited, proxied, fListen, fDiscover, fRelayTxes,
                   torControl, discovering, portMapped>>

-----------------------------------------------------------------------------
(* Step 6: network initialization.                                         *)

\* -onlynet: every network not named is limited.
OnlyNetLimits(c) == [n \in Nets |-> c.onlynet # Unset /\ n \notin c.onlynet]

\* Mutant of TorSetup: onion is not limited before the proxies are read.
TorSetupNoDefaultLimit(c) ==
    LET lim == IF c.proxy = "valid" THEN [OnlyNetLimits(c) EXCEPT !["onion"] = FALSE]
               ELSE OnlyNetLimits(c)
    IN  [limited |-> CASE c.onion = "0"     -> [lim EXCEPT !["onion"] = TRUE]
                       [] c.onion = "valid" -> [lim EXCEPT !["onion"] = FALSE]
                       [] OTHER             -> lim,
         proxied |-> [n \in Nets |-> c.proxy = "valid" \/ (n = "onion" /\ c.onion = "valid")]]

\* SetLimited(NET_TOR); a -proxy other than "" and "0" is the proxy of
\* every network and makes onion reachable; -onion=0 limits onion again,
\* another -onion is the onion proxy and makes onion reachable.
TorSetup(c) ==
    LET lim0 == [OnlyNetLimits(c) EXCEPT !["onion"] = TRUE]
        lim  == IF c.proxy = "valid" THEN [lim0 EXCEPT !["onion"] = FALSE] ELSE lim0
    IN  [limited |-> CASE c.onion = "0"     -> [lim EXCEPT !["onion"] = TRUE]
                       [] c.onion = "valid" -> [lim EXCEPT !["onion"] = FALSE]
                       [] OTHER             -> lim,
         proxied |-> [n \in Nets |-> c.proxy = "valid" \/ (n = "onion" /\ c.onion = "valid")]]

\* Every InitError of step 6 (an unsafe -uacomment, a too long version
\* string, an unknown -onlynet, a bad -whitelist, an unresolvable -proxy or
\* -onion, a -bind that does not resolve or binds nothing, a bad
\* -externalip) ends start-up; otherwise the flags are read from the
\* options and, when listening, some address is bound.
NetworkInitialization ==
    /\ pc = "net"
    /\ \/ /\ pc' = "failed"
          /\ UNCHANGED <<limited, proxied, fListen, fDiscover, fRelayTxes>>
       \/ /\ cfg.proxy # "invalid" /\ cfg.onion # "invalid"
          /\ LET t      == TorSetup(cfg)
                 listen == GetBool(args, "listen", DefaultListen)
             IN /\ limited' = t.limited
                /\ proxied' = t.proxied
                /\ fListen' = listen
                /\ fDiscover' = GetBool(args, "discover", TRUE)
                /\ fRelayTxes' = ~GetBool(args, "blocksonly", DefaultBlocksOnly)
                /\ pc' = "start"
    /\ UNCHANGED <<cfg, args, torControl, discovering, portMapped>>

(* Step 11, the options it acts on, then CConnman::Start, which may fail. *)
StartNode ==
    /\ pc = "start"
    /\ torControl' = GetBool(args, "listenonion", DefaultListenOnion)
    /\ discovering' = fDiscover
    /\ portMapped' = GetBool(args, "upnp", DefaultUpnp)
    /\ pc' \in {"done", "failed"}
    /\ UNCHANGED <<cfg, args, limited, proxied, fListen, fDiscover, fRelayTxes>>

\* Start-up went on, or stopped with InitError.
Finished == pc \in {"done", "failed"} /\ UNCHANGED vars

Next == AppInitInteraction \/ NetworkInitialization \/ StartNode \/ Finished

Spec == Init /\ [][Next]_vars

-----------------------------------------------------------------------------
TypeOK ==
    /\ pc \in {"interaction", "net", "start", "done", "failed"}
    /\ cfg \in Config
    /\ args \in [BoolOpts -> {Unset, TRUE, FALSE}]
    /\ limited \in [Nets -> BOOLEAN] /\ proxied \in [Nets -> BOOLEAN]
    /\ {fListen, fDiscover, fRelayTxes, torControl, discovering, portMapped}
           \subseteq BOOLEAN

Started == pc \in {"start", "done"}

\* The help text of -upnp and -discover ("default: 1 when listening and no
\* -proxy") and the comments of the -proxy block: with a proxy, neither
\* UPnP nor address discovery runs unless the user asked for it, even when
\* -bind makes the node listen.
PrivacyWithProxy ==
    (pc = "done" /\ cfg.proxy = "valid") =>
        /\ cfg.bools["upnp"] = Unset => ~portMapped
        /\ cfg.bools["discover"] = Unset => ~discovering

\* The -listen=0 block ("do not map ports or try to retrieve public IP when
\* not listening"): a node that does not listen, for whatever reason, maps
\* no port, runs no Tor hidden service and discovers no address, unless
\* the user asked for that option.
NotListeningNoExposure ==
    (pc = "done" /\ ~fListen) =>
        /\ cfg.bools["upnp"] = Unset => ~portMapped
        /\ cfg.bools["listenonion"] = Unset => ~torControl
        /\ cfg.bools["discover"] = Unset => ~discovering

\* The comment of the -bind block: an explicit binding address is listened
\* on even when -connect or -proxy is given.
ExplicitBindListens ==
    (Started /\ cfg.given \cap {"bind", "whitebind"} # {}
             /\ cfg.bools["listen"] = Unset) => fListen

\* Onion peers are reachable only through a proxy: step 6 never leaves
\* NET_TOR reachable without a proxy for it.
TorReachableOnlyViaProxy ==
    Started => (~limited["onion"] => proxied["onion"])

\* The help text of -onlynet: "Only connect to nodes in network <net>".
\* Every network not named stays unreachable.
OnlyNetHonoured ==
    (Started /\ cfg.onlynet # Unset) => \A n \in Nets \ cfg.onlynet : limited[n]

\* The help text of -listen ("default: 1 if no -proxy or -connect") and the
\* comment of step 6 ("-noproxy (or -proxy=0) ... can be used to not set a
\* proxy, this is the default"): without -connect and without a proxy in
\* use, the node listens by default.
ListenByDefault ==
    (Started /\ cfg.bools["listen"] = Unset /\ "connect" \notin cfg.given
             /\ cfg.proxy \in {Unset, "0"}) => fListen
=============================================================================
