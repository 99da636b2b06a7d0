SPECIFICATION Spec
CONSTANTS
    Originals = {o1, o2}
    NoManifest = NoManifest
    Faults = {}
INVARIANT AcknowledgedManifestFound
PROPERTY ImplementsRegister
