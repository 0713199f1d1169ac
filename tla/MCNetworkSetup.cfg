CONSTANT Unset = Unset
CONSTANT DefaultListen <- MCDefaultListen
CONSTANT DefaultBlocksOnly <- MCDefaultBlocksOnly
CONSTANT DefaultWhitelistForceRelay <- MCDefaultWhitelistForceRelay
CONSTANT DefaultListenOnion <- MCDefaultListenOnion
CONSTANT DefaultUpnp <- MCDefaultUpnp
CONSTANT UserChoices <- MCUserChoices
CONSTANT ProxyArgs <- MCProxyArgs
CONSTANT OnionArgs <- MCOnionArgs
CONSTANT OnlyNetArgs <- MCOnlyNetArgs
SPECIFICATION Spec
INVARIANT PrivacyWithProxy
INVARIANT NotListeningNoExposure
INVARIANT ExplicitBindListens
INVARIANT TorReachableOnlyViaProxy
