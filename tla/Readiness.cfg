\* Two callers of /health beside the loop; limits as tight as OneMissTolerated allows.
SPECIFICATION Spec
CONSTANTS
    anne = anne  ben = ben  loop = loop
    Askers = {anne, ben}
    Loop = loop
    Window = 3
    ProbeInterval = 2
    ProbeMax = 1
    BeatInterval = 2
    Transit = 0
    SendMax = 1
    HeartbeatTimeout = 8
SYMMETRY AskerSymmetry
INVARIANTS RoutedOnEvidence OneMissTolerated
PROPERTIES ReadyOnEvidence ProbesAreSpaced
