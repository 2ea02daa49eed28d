SPECIFICATION FairSpec
CONSTANTS
    site = site  cron = cron  h1 = h1  h2 = h2
    Handler = {h1, h2}
    Monitor = {site, cron}
    Url = {site}
    Critical = {site}
    Nothing = Nothing
    Window = 2
    MaxFaults = 1
INVARIANTS TypeOK NotSwallowed
PROPERTIES OncePerWindow OutageAnswered
