SPECIFICATION HandoffSpec
CONSTANTS
    PageSize = 128
    MaxFrame = 6
    MaxEntries = 5
    EfiConventionalMemory = "EfiConventionalMemory"
    EfiLoaderData = "EfiLoaderData"
    EfiBootServicesData = "EfiBootServicesData"
    Hole = "Hole"
    EfiTypes = {"EfiConventionalMemory", "EfiLoaderData", "EfiBootServicesData"}
    MemoryMaps <- MCNoMap
    DescriptorSize = 40
    EntrySizes = {40, 48, 96}
    Memories <- MCMemories
    MaxEvents = 2
INVARIANTS SlackSuffices OwnFramesReserved FreshMapExact
CHECK_DEADLOCK FALSE
