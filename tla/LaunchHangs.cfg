SPECIFICATION FairSpec
CONSTANT Faults = {"net"}
PROPERTY LaunchEnds
