SPECIFICATION Spec
CONSTANTS
    PageSize = 2
    MaxFrame = 6
    MaxEntries = 3
    EfiConventionalMemory = "EfiConventionalMemory"
    EfiTypes = {"EfiConventionalMemory", "EfiLoaderData", "EfiBootServicesData"}
    MemoryMaps <- MCMemoryMaps
INVARIANTS TypeOK ArrayInBounds Coverage EntriesMaximal
CHECK_DEADLOCK FALSE
