\* Two servers, six configurations, reloads anywhere.
SPECIFICATION Spec
CONSTANTS
    s1 = s1
    s2 = s2
    NoRules = NoRules
    Servers <- MCServers
    Words <- MCWords
    Offers <- MCOffers
    Meta <- MCMeta
    Plugins <- MCPlugins
    Configs <- MCConfigs
INVARIANTS ListedWasPermitted ListedReachesItsTool PermittedIsListed
