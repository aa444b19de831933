SPECIFICATION SocialSpec
CONSTANTS
    None = None
    ann = ann
    bob = bob
    cal = cal
    fair = fair
    Requests = {r1, r2}
    alone = r1
    Users = {ann, bob, cal}
    FewUsers = {ann, bob}
    Authors = {bob}
    Listeners = {bob}
    Staff = {cal}
    Places = {farm}
    Events = {fair}
    Texts = {"old", "new"}
    Ratings = {1, 4}
    Notifiers = {"notifyInvitation", "notifyBookingCancelled", "notifyInvitationCreated", "notifyNewFollower"}
    Ids = {d1, d2, d3}
    FewIds = {d1, d2}
    OneId = {d1}
    seedOne <- MCSeedOne
    seedTwo <- MCSeedTwo
INVARIANTS
    SocialTypeOK
    FiguresAgree
    PairsBounded
    OneEach
    NoOrphans
    InboxAgrees
PROPERTIES
    DecisionsStay
CHECK_DEADLOCK FALSE
SYMMETRY MCSymmetry
