SPECIFICATION FairSpec
CONSTANTS
    dns = dns
    Nobody = 0
    Plugin <- Plugins
    Resource <- Resources
    Sources = 2
    Catalogue <- BootCatalogue
INVARIANTS TypeOK RegistryMatches RoutedIsSetUp RefusalIsJustified
PROPERTIES RequirementsFirst SetupOrder VisitsInKahnOrder BootEnds
