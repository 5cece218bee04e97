\* More keys than slots, so that storing evicts, and two look-ups under way.
SPECIFICATION CfgSpec
CONSTANTS
    Keys = {d1, d2, d3}
    Codings = {c1, c2}
    NULL = NULL
    Readers = {r1, r2}
    SERIALCFG_MAX = 2
SYMMETRY CfgSymmetry
INVARIANT LookupRegular
PROPERTY ImplementsCfgStore
