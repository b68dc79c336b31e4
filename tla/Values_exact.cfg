SPECIFICATION Spec
CONSTANTS
    HostOrder = "little"
    Sizes = {0, 1, 2, 3, 4, 6, 8, 10, 12, 16, 32}
    Objects = {o1, o2, o3}
    o1 = o1
    o2 = o2
    o3 = o3
    Cells = {c1, c2, c3, c4}
    c1 = c1
    c2 = c2
    c3 = c3
    c4 = c4
    Blocks = {p1, p2, p3}
    p1 = p1
    p2 = p2
    p3 = p3
    Lengths = {0, 1, 2}
    Values = {v}
    v = v
    Junk = Junk
    Null = Null
    Chunks = {0, 1, 2, 4}
    MaxFed = 5
    Texts = {1, 3, 4, 5, 8}
    MaxChars = 12
    Bios = {b1, b2, b3, b4, b5}
    b1 = b1
    b2 = b2
    b3 = b3
    b4 = b4
    b5 = b5
    NoBio = NoBio
    Ids = {u1, u2, u3}
    u1 = u1
    u2 = u2
    u3 = u3
    UuidTexts <- UuidTextSet
    Raws <- RawSet
    MaxBlocks = 3
    PayloadSizes = {0, 5, 125, 126, 65535, 65536, 65537}
    MaxSets = 2
    Lines <- LineSet
    LongLines <- LongLineSet
    Urls <- UrlSet
    MaxLines = 3
    Sockets = {s1, s2}
    s1 = s1
    s2 = s2
    TableSize = 3
    MaxMade = 3
SYMMETRY Symmetry
INVARIANTS
    InOrder
    OwnedOnce
    BiosAreOwned
    EverythingIsEncoded
    EverythingIsDecoded
    UuidIsFaithful
    ReadBack
    HeaderIsFaithful
    HeldIsOwn
    LossIsExcused
PROPERTIES
    ImplementsValue
CHECK_DEADLOCK FALSE
