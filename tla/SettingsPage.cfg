SPECIFICATION SettingsSpec
CONSTANTS
    Toggles = {"channel_hopping", "client_warn", "desktop_notif"}
    MaxPosts = 2
    MaxGets = 2
    MaxDetect = 2
    MaxOrphans = 1
INVARIANTS BackendHasTheSwitches CamerasStop
