SPECIFICATION Spec
CONSTANTS
    k1 = k1
    k2 = k2
    r1 = r1
    s1 = s1
    t1 = t1
    t2 = t2
    ty = ty
    a = a
    b = b
    d1 = d1
    w1 = w1
    w2 = w2
    d2 = d2
    None = None
    Tool = Tool
    Keys = {k1, k2}
    Resources = {r1}
    Servers = {s1}
    Tokens = {t1, t2}
    YamlToken = ty
    Refs = {a}
    Yaml <- YamlFile
    Writers = {w1, w2}
    Descs = {d1, d2}
    MaxRev = 1
    MaxNow = 1
    MaxBoots = 1
    MaxWrites = 3
SYMMETRY NameSymmetry
CHECK_DEADLOCK FALSE
INVARIANTS WritesWhole
PROPERTIES RestartRestores ServiceSpec
