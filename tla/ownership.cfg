SPECIFICATION OwnershipSpec
CONSTANTS
    None = None
    Requests = {r1, r2}
    alone = r1
    Users = {ann, bob}
    Places = {p1, p2}
    Events = {e1}
    Reviews = {v1}
    Comments = {c1}
    Images = {i1, i2}
    Favorites = {f1}
    Notifications = {n1}
    OtherUsers = {cal}
    OtherPlaces = {p3}
    OtherImages = {i3}
    Products = {d1, d2, d3}
    Categories = {bread, honey}
    MAX_PRODUCTS_PER_USER = 2
    Host = {"staging"}
    Production = FALSE
    MaxGenerations = 2
    MaxMemberDocs = 1
INVARIANTS
    OwnershipTypeOK
    NoDangling
    ImagesHaveFiles
    PlaceLinkAgrees
    ProductQuota
CHECK_DEADLOCK FALSE
SYMMETRY MCSymmetry
