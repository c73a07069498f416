SPECIFICATION Spec
CONSTANTS
    Boots <- MCBoots
    Devices <- MCDevices
    MountPoints <- MCMountPoints
INVARIANT MountsAreSound
PROPERTY BootCompletes
CHECK_DEADLOCK FALSE
