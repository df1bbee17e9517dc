CONSTANTS
    Google = {gwork}
    Microsoft = {mshome}
    Uris = {"uri:calendar", "uri:mail"}
    GoogleAliases <- Aliases
    MicrosoftNames = {"openid", "email", "profile", "offline_access", "Mail.Read", "Chat.Read"}
    GoogleDefaults = {"openid", "email", "profile", "uri:calendar"}
    MicrosoftDefaults = {"openid", "email", "profile", "offline_access", "Chat.Read"}
    Typed <- TypedFlags
SPECIFICATION FairSpec
INVARIANTS TypeOK
PROPERTIES ServedUnlessDeclined RefusedOnlyIfLacking AdviceHelps
