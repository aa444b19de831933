------------------------------ MODULE Moderation ------------------------------
(***************************************************************************)
(* Administrators take comments, reviews, events, places and images out of *)
(* view and put them back, while their owners edit and delete them.  An    *)
(* edit writes the fields it changes, except that of an event, which       *)
(* writes the whole copy it read, moderation included.                     *)
(***************************************************************************)
CONSTANTS
    Comments, Reviews, Events, Places, Images,
    Admins, Texts,   \* Texts: what owners may write in a document
    Requests, None

Docs == Comments \cup Reviews \cup Events \cup Places \cup Images

\* What is asked of the constants; the module of each run asserts it of its values.
ModerationAssumption == None \notin Docs \cup Admins \cup Texts

VARIABLES
    doc,  \* the documents of the five collections
    req   \* the requests in flight

vars == <<doc, req>>

\* by stands for deletedBy, deletedAt and deleteReason: all set or all unset.
Absent  == [state |-> "absent", text |-> None, deleted |-> FALSE, by |-> None]
Removed == [Absent EXCEPT !.state = "removed"]

Documents == [state : {"stored"}, text : Texts, deleted : BOOLEAN,
              by : Admins \cup {None}] \cup {Absent, Removed}

Idle == [pc |-> "idle", id |-> None, copy |-> Absent, by |-> None]

Local ==
    [pc   : {"idle", "update:write", "delete:write", "moderate:write"},
     id   : Docs \cup {None},
     copy : Documents,             \* an edited copy to store
     by   : Admins \cup {None}]    \* who takes the document out of view; None: back

TypeOK ==
    /\ doc \in [Docs -> Documents]
    /\ req \in [Requests -> Local]

Init ==
    /\ doc = [d \in Docs |-> Absent]
    /\ req = [r \in Requests |-> Idle]

-----------------------------------------------------------------------------
(* Repository operations                                                   *)

stored(d) == doc[d].state = "stored"

create(text) == [state |-> "stored", text |-> text, deleted |-> FALSE, by |-> None]

set(d, document) == doc' = IF stored(d) THEN [doc EXCEPT ![d] = document] ELSE doc

\* Of a whole copy, the fields without a value are left as they are stored.
toPersistence(d, copy) == [copy EXCEPT !.by = IF copy.by = None THEN doc[d].by ELSE @]

\* Faulty variant: every edit writes the whole copy.
updateWhole(d, copy) == set(d, toPersistence(d, copy))

update(d, copy) ==
    set(d, IF d \in Events THEN toPersistence(d, copy)
                           ELSE [doc[d] EXCEPT !.text = copy.text])

buildSoftDeleteUpdate(d, by) == [doc[d] EXCEPT !.deleted = by # None, !.by = by]

-----------------------------------------------------------------------------
(* Requests                                                                *)

start(r, l) == req[r] = Idle /\ req' = [req EXCEPT ![r] = l]
finish(r)   == req' = [req EXCEPT ![r] = Idle]

\* Every throw after the first operation, and a crash.
RequestFail(r) == req[r] # Idle /\ finish(r) /\ UNCHANGED doc

Create ==
    /\ \E d \in Docs, text \in Texts :
        /\ doc[d] = Absent
        /\ doc' = [doc EXCEPT ![d] = create(text)]
    /\ UNCHANGED req

\* Comments and reviews may be edited out of view; images have no edit.
editable(d) ==
    /\ stored(d) /\ d \notin Images
    /\ d \in Events \cup Places => ~doc[d].deleted

UpdateFind(r) ==
    /\ \E d \in Docs, text \in Texts :
        /\ editable(d)
        /\ start(r, [Idle EXCEPT !.pc = "update:write", !.id = d,
                                 !.copy = [doc[d] EXCEPT !.text = text]])
    /\ UNCHANGED doc

UpdateWrite(r) ==
    /\ req[r].pc = "update:write"
    /\ update(req[r].id, req[r].copy)
    /\ finish(r)

DeleteFind(r) ==
    /\ \E d \in Docs : stored(d) /\ start(r, [Idle EXCEPT !.pc = "delete:write", !.id = d])
    /\ UNCHANGED doc

DeleteWrite(r) ==
    /\ req[r].pc = "delete:write"
    /\ set(req[r].id, Removed)
    /\ finish(r)

(* SoftDeleteAdminResource and RestoreAdminResource *)

applyAdminResourceSoftDelete(r) ==
    /\ \E d \in Docs, by \in Admins \cup {None} :
        /\ stored(d)
        /\ start(r, [Idle EXCEPT !.pc = "moderate:write", !.id = d, !.by = by])
    /\ UNCHANGED doc

softDelete(r) ==
    /\ req[r].pc = "moderate:write"
    /\ set(req[r].id, buildSoftDeleteUpdate(req[r].id, req[r].by))
    /\ finish(r)

-----------------------------------------------------------------------------

Step(r) ==
    \/ UpdateFind(r) \/ UpdateWrite(r) \/ DeleteFind(r) \/ DeleteWrite(r)
    \/ applyAdminResourceSoftDelete(r) \/ softDelete(r) \/ RequestFail(r)

Next == Create \/ \E r \in Requests : Step(r)

Spec == Init /\ [][Next]_vars

-----------------------------------------------------------------------------
(* Safety                                                                  *)

serves(pc, d) ==
    \E r \in Requests : req[r].pc = pc /\ req[r].id = d /\ req'[r] = Idle

moderated(d) == <<doc[d].deleted, doc[d].by>>

\* Only an administrator's request changes whether a document is in view and who
\* took it out, and only its owner's what it says, however edits, deletions and
\* moderation overlap; of the documents in whole, whose edits write all of the
\* copy they read (MongooseEventRepository.ts:83-89), this is not said.
ModerationKept(whole) ==
    \A d \in Docs \ whole :
        stored(d) /\ stored(d)' =>
            /\ moderated(d)' # moderated(d) => serves("moderate:write", d)
            /\ doc'[d].text # doc[d].text => serves("update:write", d)
=============================================================================
