SPECIFICATION Spec
CONSTANTS
    Originals = {o1, o2}
    NoManifest = NoManifest
    Faults = {"swap", "die in swap"}
INVARIANT AcknowledgedManifestFound
