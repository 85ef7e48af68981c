\* Two packages that share one workspace and one archive, two optimizations.
CONSTANTS
    Slots = {s1, s2}
    Directories = {d1}
    Exported = {exported}
    Converted = {converted}
    MaxRuns = 2
    Absent = Absent
    Partial = Partial
SPECIFICATION Spec
SYMMETRY Symmetry
INVARIANTS TypeOK BestIsThere ServesWhatWasMeasured MetadataIsOwn
