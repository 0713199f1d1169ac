--------------------------- MODULE MCNetworkSetup ---------------------------
(* NetworkSetup with the defaults of the Bitcoin Core lineage this node    *)
(* inherits (listen, Tor control and UPnP on, blocks-only off, forced     *)
(* relay from whitelisted peers on) and every command line over the       *)
(* options that interact: each boolean option unset or set against the   *)
(* soft default it can receive, every list option given or not, -proxy    *)
(* and -onion of each kind, and -onlynet unset, one network or two.       *)
EXTENDS NetworkSetup

MCDefaultListen == TRUE
MCDefaultBlocksOnly == FALSE
MCDefaultWhitelistForceRelay == TRUE
MCDefaultListenOnion == TRUE
MCDefaultUpnp == TRUE
MCUserChoices ==
    [o \in BoolOpts |->
        CASE o = "listen"                              -> {Unset, TRUE, FALSE}
          [] o \in {"upnp", "discover", "listenonion"} -> {Unset, TRUE}
          [] o = "blocksonly"                          -> {Unset, TRUE}
          [] OTHER                                     -> {Unset}]
MCProxyArgs == {Unset, "0", "valid", "invalid"}
MCOnionArgs == {Unset, "0", "valid", "invalid"}
MCOnlyNetArgs == {Unset, {"ipv4"}, {"ipv4", "ipv6"}}
=============================================================================
