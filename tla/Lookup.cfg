\* Both builds, two reports.
CONSTANTS
    Builds = {"dwarf", "bfd"}
    Pcs = {1, 2, 3, 4, 5, 6, 7, 8, 9, 10, 11, 12, 13, 14, 15}
    MaxReports = 2
    Top = 10
    Units <- MCUnits
    MaxUnits = 2
    Objects <- MCObjects
    Exe = "fixed"
    Processes <- MCProcesses
    NoObject = "none"
SPECIFICATION Spec
INVARIANTS
    TreesValid
    LookupsExact
\* The reports are bounded, and a failed assertion ends the program.
CHECK_DEADLOCK FALSE
