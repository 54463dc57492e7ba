\* Three key pairs for two member ids, two versions of the roster, two signatures.
SPECIFICATION EnrolmentSpec
CONSTANTS
    alice = alice  bob = bob
    Members = {alice, bob}
    MaxKeys = 3
    MaxVersion = 2
    MaxSigned = 2
SYMMETRY MemberSymmetry
CHECK_DEADLOCK FALSE
INVARIANTS EnrolmentTypeOK HalvesMatch SignedIsLoadable
PROPERTIES MigrationKeepsSecret LoadedIsVouched
