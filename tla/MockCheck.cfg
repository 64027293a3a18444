SPECIFICATION Spec
CONSTANTS
    Packages <- packages
    Iface = {"Store", "Full", "Client", "Queue", "Reader"}
    None = None
INVARIANTS
    ReportedWhateverOrder
