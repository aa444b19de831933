----------------------------- MODULE Announcement -----------------------------
(***************************************************************************)
(* The announcements the administrators write: CreateAnnouncement,         *)
(* UpdateAnnouncement, PublishAnnouncement, ArchiveAnnouncement and        *)
(* SoftDeleteAnnouncement.  Every change writes back the whole copy it     *)
(* read, deletedAt included.  The slug is unique in the table, among the   *)
(* soft-deleted ones too.  Dates, priorities and translations are left out.*)
(***************************************************************************)
EXTENDS FiniteSets

CONSTANTS Slugs, AnnouncementIds, Requests, None

\* What is asked of the constants; the module of each run asserts it of its values.
AnnouncementAssumption ==
    /\ None \notin Slugs \cup AnnouncementIds /\ IsFiniteSet(Requests)

VARIABLES announcements, req

vars == <<announcements, req>>

Absent == [slug |-> None, status |-> "none", deleted |-> FALSE]

Announcements ==
    [slug : Slugs, status : {"draft", "published", "archived"}, deleted : BOOLEAN]
        \cup {Absent}

Idle == [pc |-> "idle", id |-> None, slug |-> None, next |-> Absent]

Local ==
    [pc   : {"idle", "create:write", "update:slug", "update:write"},
     id   : AnnouncementIds \cup {None}, slug : Slugs \cup {None},
     next : Announcements]

TypeOK ==
    /\ announcements \in [AnnouncementIds -> Announcements]
    /\ req \in [Requests -> Local]

Init ==
    /\ announcements = [a \in AnnouncementIds |-> Absent]
    /\ req = [r \in Requests |-> Idle]

-----------------------------------------------------------------------------
(* Entity and table                                                        *)

stored(a) == announcements[a] # Absent

isSoftDeleted(a) == announcements[a].deleted

createDraft(slug) == [slug |-> slug, status |-> "draft", deleted |-> FALSE]

publish(announcement) == [announcement EXCEPT !.status = "published"]

archive(announcement) == [announcement EXCEPT !.status = "archived"]

softDelete(announcement) == [announcement EXCEPT !.deleted = TRUE]

withUpdates(announcement, slug) == [announcement EXCEPT !.slug = slug]

findById(a) == stored(a)

\* The slug is taken, and not by a soft-deleted announcement.
findBySlug(slug) ==
    {a \in AnnouncementIds : announcements[a].slug = slug /\ ~isSoftDeleted(a)}

\* The unique index of the slug, which soft-deleted rows are in.
slugFree(slug, a) == \A b \in AnnouncementIds \ {a} : announcements[b].slug # slug

-----------------------------------------------------------------------------
(* Requests                                                                *)

goto(r, pc) == req' = [req EXCEPT ![r].pc = pc]
finish(r)   == req' = [req EXCEPT ![r] = Idle]

RequestFail(r) ==
    /\ req[r] # Idle
    /\ finish(r)
    /\ UNCHANGED announcements

CreateFindBySlug(r) ==
    /\ req[r] = Idle
    /\ \E slug \in Slugs :
        /\ findBySlug(slug) = {}
        /\ req' = [req EXCEPT ![r] = [Idle EXCEPT !.pc = "create:write", !.slug = slug]]
    /\ UNCHANGED announcements

create(r) ==
    /\ req[r].pc = "create:write"
    /\ \E a \in AnnouncementIds :
        /\ ~stored(a) /\ slugFree(req[r].slug, a)
        /\ announcements' = [announcements EXCEPT ![a] = createDraft(req[r].slug)]
    /\ finish(r)

\* PublishAnnouncement, ArchiveAnnouncement and SoftDeleteAnnouncement.
FindToChange(r, next(_)) ==
    /\ req[r] = Idle
    /\ \E a \in AnnouncementIds :
        /\ findById(a) /\ ~isSoftDeleted(a)
        /\ req' = [req EXCEPT ![r] = [Idle EXCEPT !.pc = "update:write", !.id = a,
                                                  !.next = next(announcements[a])]]
    /\ UNCHANGED announcements

PublishFind(r)    == FindToChange(r, publish)
ArchiveFind(r)    == FindToChange(r, archive)
SoftDeleteFind(r) == FindToChange(r, softDelete)

\* UpdateAnnouncement: a new slug is looked up in a step of its own.
UpdateFind(r) ==
    /\ req[r] = Idle
    /\ \E a \in AnnouncementIds, slug \in Slugs :
        /\ findById(a) /\ ~isSoftDeleted(a)
        /\ req' = [req EXCEPT ![r] = [Idle EXCEPT
                        !.pc = IF slug = announcements[a].slug THEN "update:write"
                               ELSE "update:slug",
                        !.id = a, !.next = withUpdates(announcements[a], slug)]]
    /\ UNCHANGED announcements

UpdateFindBySlug(r) ==
    /\ req[r].pc = "update:slug"
    /\ findBySlug(req[r].next.slug) \subseteq {req[r].id}
    /\ goto(r, "update:write")
    /\ UNCHANGED announcements

\* One transaction: the translations are replaced and the row written.
update(r) ==
    /\ req[r].pc = "update:write"
    /\ slugFree(req[r].next.slug, req[r].id)
    /\ announcements' = [announcements EXCEPT ![req[r].id] = req[r].next]
    /\ finish(r)

-----------------------------------------------------------------------------

Step(r) ==
    \/ CreateFindBySlug(r) \/ create(r)
    \/ PublishFind(r) \/ ArchiveFind(r) \/ SoftDeleteFind(r)
    \/ UpdateFind(r) \/ UpdateFindBySlug(r) \/ update(r)
    \/ RequestFail(r)

Next == \E r \in Requests : Step(r)

Spec == Init /\ [][Next]_vars

-----------------------------------------------------------------------------
(* Reads                                                                   *)

listActive == {a \in AnnouncementIds : announcements[a].status = "published"
                                       /\ ~isSoftDeleted(a)}

listAdmin == {a \in AnnouncementIds : stored(a) /\ ~isSoftDeleted(a)}

-----------------------------------------------------------------------------
(* Safety                                                                  *)

\* However requests overlap, no two announcements in the administrators' list
\* have one slug: the look-ups see less than the index does
\* (CreateAnnouncement:27-33, UpdateAnnouncement:40-48, schema.prisma:27).
UniqueSlug ==
    \A a, b \in listAdmin : announcements[a].slug = announcements[b].slug => a = b

\* With one request at a time, a soft-deleted announcement is neither listed nor
\* shown again, whatever is asked of it next (SoftDeleteAnnouncement:7-26).
DeletionKept ==
    \A a \in AnnouncementIds : isSoftDeleted(a) => a \notin (listActive \cup listAdmin)'
=============================================================================
