SPECIFICATION Spec
CONSTANTS
    dns = dns
    Nobody = 0
    Plugin <- Plugins
    Resource <- Resources
    Sources = 2
    Catalogue <- DisabledCatalogue
INVARIANTS DisabledStaysOut
