SPECIFICATION Spec
CONSTANTS
    Reports <- MCReports
    Width <- MCWidth
    HeaderWidth = 3
INVARIANTS TypeOK RowsCurrent SamplesPaired CellsFit
PROPERTY RowsFollow
