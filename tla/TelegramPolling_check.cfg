CONSTANTS
    MaxDomain = 1
    Configs <- MCConfigs
    Callers = {"c1"}
    Methods = {"get_updates", "get_status", "get_media_download_url", "download_file_content", "head"}
    Updates = 2
    Limit = 2
    Starts = 2
SPECIFICATION FairSpec
CHECK_DEADLOCK FALSE
INVARIANTS
    UpdatesHandedOnce
    TunnelIsClean
PROPERTIES
    PollingGoesOn
