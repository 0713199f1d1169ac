------------------------- MODULE NetworkSetupProofs -------------------------
(***************************************************************************)
(* Proofs, for every choice of the defaults and of the option values, that *)
(* the network options of start-up keep a node that does not listen, or   *)
(* that uses a proxy, from exposing itself, that an explicit bind is      *)
(* listened on, and that onion peers are reachable only through a proxy.  *)
(***************************************************************************)
EXTENDS NetworkSetup, TLAPS

(* What each step has established so far: the options are those of        *)
(* InitParameterInteraction from step 6 on, the flags and reachability    *)
(* those step 6 derived from them, and what step 11 started follows them. *)
NetInv ==
    /\ TypeOK
    /\ pc \in {"net", "start", "done"} => args = Interaction(cfg)
    /\ pc \in {"start", "done"} =>
           /\ fListen = GetBool(args, "listen", DefaultListen)
           /\ fDiscover = GetBool(args, "discover", TRUE)
           /\ limited = TorSetup(cfg).limited
           /\ proxied = TorSetup(cfg).proxied
           /\ cfg.proxy # "invalid"
    /\ pc = "done" =>
           /\ portMapped = GetBool(args, "upnp", DefaultUpnp)
           /\ torControl = GetBool(args, "listenonion", DefaultListenOnion)
           /\ discovering = fDiscover

Val  == {Unset, TRUE, FALSE}
Opts == [BoolOpts -> Val]

\* SoftSetBoolArg over a set of options gives every unset one of them the
\* value and leaves every other option as it was.
LEMMA SoftApply ==
    ASSUME NEW a \in Opts, NEW S, NEW v \in Val
    PROVE  /\ Soft(a, S, v) \in Opts
           /\ \A o \in BoolOpts :
                 Soft(a, S, v)[o] = IF o \in S /\ a[o] = Unset THEN v ELSE a[o]
BY DEF Soft, Opts

\* What each block of InitParameterInteraction does to each option.
\* -bind or -whitebind sets an unset -listen to 1.
LEMMA BindApply ==
    ASSUME NEW a \in Opts, NEW c
    PROVE  /\ BindRule(a, c) \in Opts
           /\ \A o \in BoolOpts : BindRule(a, c)[o] =
                 IF o \in {"listen"} /\ c.given \cap {"bind", "whitebind"} # {} /\ a[o] = Unset
                 THEN TRUE ELSE a[o]
<1>1. CASE c.given \cap {"bind", "whitebind"} # {}
  <2>1. TRUE \in Val
    BY DEF Val
  <2>2. /\ Soft(a, {"listen"}, TRUE) \in Opts
        /\ \A o \in BoolOpts : Soft(a, {"listen"}, TRUE)[o] =
              IF o \in {"listen"} /\ a[o] = Unset THEN TRUE ELSE a[o]
    BY <2>1, SoftApply
  <2>3. QED
    BY <1>1, <2>2 DEF BindRule
<1>2. CASE ~(c.given \cap {"bind", "whitebind"} # {})
  BY <1>2 DEF BindRule
<1>3. QED
  BY <1>1, <1>2

\* -connect sets an unset -dnsseed and -listen to 0.
LEMMA ConnectApply ==
    ASSUME NEW a \in Opts, NEW c
    PROVE  /\ ConnectRule(a, c) \in Opts
           /\ \A o \in BoolOpts : ConnectRule(a, c)[o] =
                 IF o \in {"dnsseed", "listen"} /\ "connect" \in c.given /\ a[o] = Unset
                 THEN FALSE ELSE a[o]
<1>1. CASE "connect" \in c.given
  <2>1. /\ Soft(a, {"dnsseed", "listen"}, FALSE) \in Opts
        /\ \A o \in BoolOpts : Soft(a, {"dnsseed", "listen"}, FALSE)[o] =
              IF o \in {"dnsseed", "listen"} /\ a[o] = Unset THEN FALSE ELSE a[o]
    BY SoftApply DEF Val
  <2>2. QED
    BY <1>1, <2>1 DEF ConnectRule
<1>2. CASE ~("connect" \in c.given)
  BY <1>2 DEF ConnectRule
<1>3. QED
  BY <1>1, <1>2

\* A -proxy, even -noproxy, sets an unset -listen, -upnp and -discover to 0.
LEMMA ProxyApply ==
    ASSUME NEW a \in Opts, NEW c
    PROVE  /\ ProxyRule(a, c) \in Opts
           /\ \A o \in BoolOpts : ProxyRule(a, c)[o] =
                 IF o \in {"listen", "upnp", "discover"} /\ c.proxy # Unset /\ a[o] = Unset
                 THEN FALSE ELSE a[o]
<1>1. CASE c.proxy # Unset
  <2>1. /\ Soft(a, {"listen", "upnp", "discover"}, FALSE) \in Opts
        /\ \A o \in BoolOpts : Soft(a, {"listen", "upnp", "discover"}, FALSE)[o] =
              IF o \in {"listen", "upnp", "discover"} /\ a[o] = Unset THEN FALSE ELSE a[o]
    BY SoftApply DEF Val
  <2>2. QED
    BY <1>1, <2>1 DEF ProxyRule
<1>2. CASE ~(c.proxy # Unset)
  BY <1>2 DEF ProxyRule
<1>3. QED
  BY <1>1, <1>2

\* When not listening, an unset -upnp, -discover and -listenonion become 0.
LEMMA ListenApply ==
    ASSUME NEW a \in Opts
    PROVE  /\ ListenRule(a) \in Opts
           /\ \A o \in BoolOpts : ListenRule(a)[o] =
                 IF o \in {"upnp", "discover", "listenonion"} /\ ~GetBool(a, "listen", DefaultListen) /\ a[o] = Unset
                 THEN FALSE ELSE a[o]
<1>1. CASE ~GetBool(a, "listen", DefaultListen)
  <2>1. /\ Soft(a, {"upnp", "discover", "listenonion"}, FALSE) \in Opts
        /\ \A o \in BoolOpts : Soft(a, {"upnp", "discover", "listenonion"}, FALSE)[o] =
              IF o \in {"upnp", "discover", "listenonion"} /\ a[o] = Unset THEN FALSE ELSE a[o]
    BY SoftApply DEF Val
  <2>2. QED
    BY <1>1, <2>1 DEF ListenRule
<1>2. CASE ~(~GetBool(a, "listen", DefaultListen))
  BY <1>2 DEF ListenRule
<1>3. QED
  BY <1>1, <1>2

\* -externalip sets an unset -discover to 0.
LEMMA ExternalIPApply ==
    ASSUME NEW a \in Opts, NEW c
    PROVE  /\ ExternalIPRule(a, c) \in Opts
           /\ \A o \in BoolOpts : ExternalIPRule(a, c)[o] =
                 IF o \in {"discover"} /\ "externalip" \in c.given /\ a[o] = Unset
                 THEN FALSE ELSE a[o]
<1>1. CASE "externalip" \in c.given
  <2>1. /\ Soft(a, {"discover"}, FALSE) \in Opts
        /\ \A o \in BoolOpts : Soft(a, {"discover"}, FALSE)[o] =
              IF o \in {"discover"} /\ a[o] = Unset THEN FALSE ELSE a[o]
    BY SoftApply DEF Val
  <2>2. QED
    BY <1>1, <2>1 DEF ExternalIPRule
<1>2. CASE ~("externalip" \in c.given)
  BY <1>2 DEF ExternalIPRule
<1>3. QED
  BY <1>1, <1>2

\* The relay rules touch no option but -whitelistrelay.
LEMMA RelayApply ==
    ASSUME NEW a \in Opts
    PROVE  /\ RelayRules(a) \in Opts
           /\ \A o \in BoolOpts \ {"whitelistrelay"} : RelayRules(a)[o] = a[o]
<1>1. DEFINE b == IF GetBool(a, "blocksonly", DefaultBlocksOnly)
                  THEN Soft(a, {"whitelistrelay"}, FALSE) ELSE a
<1>2. b \in Opts /\ \A o \in BoolOpts \ {"whitelistrelay"} : b[o] = a[o]
  BY SoftApply DEF Val
<1>3. QED
  BY <1>2, SoftApply DEF RelayRules, Val

\* The options InitParameterInteraction hands on: an explicit bind turns
\* listening on; a proxy turns UPnP and discovery off; when the node ends
\* up not listening, UPnP, discovery and Tor control are off; each unless
\* the user gave the option.
LEMMA InteractionFacts ==
    ASSUME NEW c \in Config
    PROVE  /\ Interaction(c) \in Opts
           /\ (c.given \cap {"bind", "whitebind"} # {} /\ c.bools["listen"] = Unset)
                 => Interaction(c)["listen"] = TRUE
           /\ c.proxy # Unset =>
                 \A o \in {"upnp", "discover"} :
                    c.bools[o] = Unset => Interaction(c)[o] = FALSE
           /\ ~GetBool(Interaction(c), "listen", DefaultListen) =>
                 \A o \in {"upnp", "discover", "listenonion"} :
                    c.bools[o] = Unset => Interaction(c)[o] = FALSE
<1> DEFINE a0 == c.bools
           a1 == BindRule(a0, c)
           a2 == ConnectRule(a1, c)
           a3 == ProxyRule(a2, c)
           a4 == ListenRule(a3)
           a5 == ExternalIPRule(a4, c)
           a6 == RelayRules(a5)
<1>1. Interaction(c) = a6
  BY DEF Interaction
<1>2. a0 \in Opts
  BY DEF Config, Opts, Val
<1>3. a1 \in Opts /\ a2 \in Opts /\ a3 \in Opts /\ a4 \in Opts /\ a5 \in Opts /\ a6 \in Opts
  BY <1>2, BindApply, ConnectApply, ProxyApply, ListenApply, ExternalIPApply, RelayApply
<1>4. \A o \in BoolOpts : a1[o] =
         IF o \in {"listen"} /\ c.given \cap {"bind", "whitebind"} # {} /\ a0[o] = Unset
         THEN TRUE ELSE a0[o]
  BY <1>2, BindApply
<1>5. \A o \in BoolOpts : a2[o] =
         IF o \in {"dnsseed", "listen"} /\ "connect" \in c.given /\ a1[o] = Unset
         THEN FALSE ELSE a1[o]
  BY <1>3, ConnectApply
<1>6. \A o \in BoolOpts : a3[o] =
         IF o \in {"listen", "upnp", "discover"} /\ c.proxy # Unset /\ a2[o] = Unset
         THEN FALSE ELSE a2[o]
  BY <1>3, ProxyApply
<1>7. \A o \in BoolOpts : a4[o] =
         IF o \in {"upnp", "discover", "listenonion"}
            /\ ~GetBool(a3, "listen", DefaultListen) /\ a3[o] = Unset
         THEN FALSE ELSE a3[o]
  BY <1>3, ListenApply
<1>8. \A o \in BoolOpts : a5[o] =
         IF o \in {"discover"} /\ "externalip" \in c.given /\ a4[o] = Unset
         THEN FALSE ELSE a4[o]
  BY <1>3, ExternalIPApply
<1>9. \A o \in BoolOpts \ {"whitelistrelay"} : a6[o] = a5[o]
  BY <1>3, RelayApply
<1>10. (c.given \cap {"bind", "whitebind"} # {} /\ c.bools["listen"] = Unset)
         => a6["listen"] = TRUE
  BY <1>4, <1>5, <1>6, <1>7, <1>8, <1>9, NetworkAssumption DEF BoolOpts
<1>11. c.proxy # Unset =>
         \A o \in {"upnp", "discover"} : c.bools[o] = Unset => a6[o] = FALSE
  <2>1. SUFFICES ASSUME c.proxy # Unset, NEW o \in {"upnp", "discover"}, c.bools[o] = Unset
                 PROVE  a6[o] = FALSE
    OBVIOUS
  <2>2. a2[o] = Unset
    BY <2>1, <1>4, <1>5 DEF BoolOpts
  <2>3. a3[o] = FALSE
    BY <2>1, <2>2, <1>6 DEF BoolOpts
  <2>4. QED
    BY <2>3, <1>7, <1>8, <1>9, NetworkAssumption DEF BoolOpts
<1>12. a6["listen"] = a3["listen"]
  BY <1>7, <1>8, <1>9 DEF BoolOpts
<1>13. ~GetBool(a6, "listen", DefaultListen) =>
         \A o \in {"upnp", "discover", "listenonion"} :
            c.bools[o] = Unset => a6[o] = FALSE
  <2>1. a0["upnp"] = Unset => a3["upnp"] \in {Unset, FALSE}
    BY <1>4, <1>5, <1>6 DEF BoolOpts
  <2>2. a0["discover"] = Unset => a3["discover"] \in {Unset, FALSE}
    BY <1>4, <1>5, <1>6 DEF BoolOpts
  <2>3. a0["listenonion"] = Unset => a3["listenonion"] = Unset
    BY <1>4, <1>5, <1>6 DEF BoolOpts
  <2>4. QED
    BY <1>7, <1>8, <1>9, <1>12, <2>1, <2>2, <2>3 DEF GetBool, BoolOpts
<1>14. QED
  BY <1>1, <1>3, <1>10, <1>11, <1>13

\* Step 6 leaves onion reachable only where it set an onion proxy.
LEMMA TorSetupFacts ==
    ASSUME NEW c \in Config
    PROVE  /\ TorSetup(c).limited \in [Nets -> BOOLEAN]
           /\ TorSetup(c).proxied \in [Nets -> BOOLEAN]
           /\ ~TorSetup(c).limited["onion"] => TorSetup(c).proxied["onion"]
<1>1. OnlyNetLimits(c) \in [Nets -> BOOLEAN]
  BY DEF OnlyNetLimits
<1>2. CASE c.onion = "0"
  BY <1>1, <1>2 DEF TorSetup, Nets
<1>3. CASE c.onion = "valid"
  BY <1>1, <1>3 DEF TorSetup, Nets
<1>4. CASE c.onion \notin {"0", "valid"}
  BY <1>1, <1>4 DEF TorSetup, Nets
<1>5. QED
  BY <1>2, <1>3, <1>4

-----------------------------------------------------------------------------
\* NetInv holds initially.
LEMMA InitNetInv == Init => NetInv
<1> SUFFICES ASSUME Init PROVE NetInv
  OBVIOUS
<1>1. cfg \in Config /\ args = cfg.bools
  BY DEF Init
<1>2. args \in [BoolOpts -> {Unset, TRUE, FALSE}]
  BY <1>1 DEF Config
<1>3. QED
  BY <1>2 DEF Init, NetInv, TypeOK, Nets

\* Every step of start-up keeps NetInv.
LEMMA NextNetInv == NetInv /\ [Next]_vars => NetInv'
<1> SUFFICES ASSUME NetInv, [Next]_vars PROVE NetInv'
  OBVIOUS
<1>1. cfg \in Config /\ args \in Opts
  BY DEF NetInv, TypeOK, Opts, Val
<1>2. CASE AppInitInteraction
  <2>1. Interaction(cfg) \in Opts
    BY <1>1, InteractionFacts
  <2>2. QED
    BY <1>2, <2>1 DEF AppInitInteraction, NetInv, TypeOK, Opts, Val
<1>3. CASE NetworkInitialization
  <2>1. CASE pc' = "failed"
    BY <1>3, <2>1 DEF NetworkInitialization, NetInv, TypeOK
  <2>2. CASE pc' # "failed"
    <3>1. /\ pc = "net" /\ pc' = "start"
          /\ cfg.proxy # "invalid"
          /\ limited' = TorSetup(cfg).limited
          /\ proxied' = TorSetup(cfg).proxied
          /\ fListen' = GetBool(args, "listen", DefaultListen)
          /\ fDiscover' = GetBool(args, "discover", TRUE)
          /\ fRelayTxes' = ~GetBool(args, "blocksonly", DefaultBlocksOnly)
          /\ UNCHANGED <<cfg, args, torControl, discovering, portMapped>>
      BY <1>3, <2>2 DEF NetworkInitialization
    <3>2. /\ GetBool(args, "listen", DefaultListen) \in BOOLEAN
          /\ GetBool(args, "discover", TRUE) \in BOOLEAN
          /\ GetBool(args, "blocksonly", DefaultBlocksOnly) \in BOOLEAN
      BY <1>1, NetworkAssumption DEF GetBool, Opts, Val, BoolOpts
    <3>3. QED
      BY <1>1, <3>1, <3>2, TorSetupFacts DEF NetInv, TypeOK
  <2>3. QED
    BY <2>1, <2>2
<1>4. CASE StartNode
  <2>1. /\ GetBool(args, "upnp", DefaultUpnp) \in BOOLEAN
        /\ GetBool(args, "listenonion", DefaultListenOnion) \in BOOLEAN
    BY <1>1, NetworkAssumption DEF GetBool, Opts, Val, BoolOpts
  <2>2. QED
    BY <1>4, <2>1 DEF StartNode, NetInv, TypeOK
<1>5. CASE Finished \/ UNCHANGED vars
  BY <1>5 DEF Finished, vars, NetInv, TypeOK
<1>6. QED
  BY <1>2, <1>3, <1>4, <1>5 DEF Next

\* The options, flags and reachability of every reachable state are those
\* InitParameterInteraction, step 6 and step 11 compute from the command
\* line.
THEOREM NetInvariant == Spec => []NetInv
BY InitNetInv, NextNetInv, PTL DEF Spec

-----------------------------------------------------------------------------
\* An explicit -bind or -whitebind is listened on even with -connect or
\* -proxy (the comment of InitParameterInteraction's first block), for
\* every default and every command line.
THEOREM ExplicitBindListensThm == Spec => []ExplicitBindListens
<1>1. NetInv => ExplicitBindListens
  <2> SUFFICES ASSUME NetInv, Started,
                      cfg.given \cap {"bind", "whitebind"} # {},
                      cfg.bools["listen"] = Unset
               PROVE  fListen
    BY DEF ExplicitBindListens
  <2>1. cfg \in Config /\ args = Interaction(cfg)
        /\ fListen = GetBool(args, "listen", DefaultListen)
    BY DEF NetInv, TypeOK, Started
  <2>2. Interaction(cfg)["listen"] = TRUE
    BY <2>1, InteractionFacts
  <2>3. QED
    BY <2>1, <2>2, NetworkAssumption DEF GetBool
<1>2. QED
  BY <1>1, NetInvariant, PTL

\* A node that ends start-up not listening maps no port, starts no Tor
\* hidden service and discovers no address unless the user asked (the
\* -listen=0 block of InitParameterInteraction, and step 11).
THEOREM NotListeningNoExposureThm == Spec => []NotListeningNoExposure
<1>1. NetInv => NotListeningNoExposure
  <2> SUFFICES ASSUME NetInv, pc = "done", ~fListen
               PROVE  /\ cfg.bools["upnp"] = Unset => ~portMapped
                      /\ cfg.bools["listenonion"] = Unset => ~torControl
                      /\ cfg.bools["discover"] = Unset => ~discovering
    BY DEF NotListeningNoExposure
  <2>1. /\ cfg \in Config /\ args = Interaction(cfg)
        /\ fListen = GetBool(args, "listen", DefaultListen)
        /\ fDiscover = GetBool(args, "discover", TRUE)
        /\ portMapped = GetBool(args, "upnp", DefaultUpnp)
        /\ torControl = GetBool(args, "listenonion", DefaultListenOnion)
        /\ discovering = fDiscover
    BY DEF NetInv, TypeOK
  <2>2. \A o \in {"upnp", "discover", "listenonion"} :
           cfg.bools[o] = Unset => Interaction(cfg)[o] = FALSE
    BY <2>1, InteractionFacts
  <2>3. QED
    BY <2>1, <2>2, NetworkAssumption DEF GetBool
<1>2. QED
  BY <1>1, NetInvariant, PTL

\* A node with a proxy neither maps a port nor discovers its addresses
\* unless the user asked, whatever else the command line says (the
\* -proxy block of InitParameterInteraction, and step 11).
THEOREM PrivacyWithProxyThm == Spec => []PrivacyWithProxy
<1>1. NetInv => PrivacyWithProxy
  <2> SUFFICES ASSUME NetInv, pc = "done", cfg.proxy = "valid"
               PROVE  /\ cfg.bools["upnp"] = Unset => ~portMapped
                      /\ cfg.bools["discover"] = Unset => ~discovering
    BY DEF PrivacyWithProxy
  <2>1. /\ cfg \in Config /\ args = Interaction(cfg)
        /\ fDiscover = GetBool(args, "discover", TRUE)
        /\ portMapped = GetBool(args, "upnp", DefaultUpnp)
        /\ discovering = fDiscover
    BY DEF NetInv, TypeOK
  <2>2. cfg.proxy # Unset
    BY NetworkAssumption
  <2>3. \A o \in {"upnp", "discover"} :
           cfg.bools[o] = Unset => Interaction(cfg)[o] = FALSE
    BY <2>1, <2>2, InteractionFacts
  <2>4. QED
    BY <2>1, <2>3, NetworkAssumption DEF GetBool
<1>2. QED
  BY <1>1, NetInvariant, PTL

\* Onion peers are reachable only through a proxy set for them (step 6),
\* for every -onlynet, -proxy and -onion.
THEOREM TorReachableOnlyViaProxyThm == Spec => []TorReachableOnlyViaProxy
<1>1. NetInv => TorReachableOnlyViaProxy
  BY TorSetupFacts DEF NetInv, TypeOK, TorReachableOnlyViaProxy, Started
<1>2. QED
  BY <1>1, NetInvariant, PTL
=============================================================================
