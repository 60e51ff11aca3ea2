SPECIFICATION Spec
CONSTANTS
    m1 = m1
    m2 = m2
    m3 = m3
    g1 = g1
    g2 = g2
    scoped = scoped
    asking = asking
    static = static
    dynamic = dynamic
    custom = custom
    Nil = Nil
    Resolvable = Resolvable
    Message <- MCThreeMessages
    Guild <- MCGuild
    Text <- MCText
    Lower <- MCLower
    Matcher <- MCMatcher
    Strategy <- MCStrategy
    PrefixList <- MCPrefixList
    Callbacks <- MCCallbacks
    Classes <- MCClasses
    Settable <- MCSettable
    Sent <- MCSentScoped
PROPERTY PrefixFollowsSetting
