CONSTANTS
    Installed = v0
    Newer = {v1, v2}
    MaxReleases = 2
    MaxUpgradeFaults = 0
SPECIFICATION UpgradeSpec
INVARIANT InterruptionIsSurvived
