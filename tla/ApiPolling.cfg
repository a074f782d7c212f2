SPECIFICATION PollSpec
CONSTANTS
    Endpoints = {"networks", "alerts"}
    Instances = {1, 2}
    HookOf <- MCHookOf
    Versions <- MCVersions
    Empty <- MCEmpty
PROPERTIES
    NoStepBack
    ViewsCatchUp
