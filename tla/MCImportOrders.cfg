SPECIFICATION ImportSpec
CONSTANTS
    DefaultDays = 7
    LeadDays = 2
    Importers = {i1}
    Tabs = {t1}
    Files <- MCFiles
    Places = {1, 2, 3, 4}
    CityOf <- MCCityOf
    Dictionary = {1, 4}
    Earlier <- MCEarlier
    Today = 0
    MaxOrder = 3
INVARIANTS ImportTypeOK OneOrderPerCode CoordsNearest
PROPERTIES FileKept
