---------------------------- MODULE OwnershipParts ----------------------------
(***************************************************************************)
(* Ownership and cascades, and the products of users: places and events    *)
(* with one request at a time, reviews and images with one request at a    *)
(* time, images with several requests at once, products with several       *)
(* requests at once, and the runs of the seed script, which removes and    *)
(* makes the same documents in bulk.                                       *)
(***************************************************************************)
EXTENDS Subjects

CONSTANTS
    Reviews, Comments, Images, Favorites, Notifications,
    OtherUsers, OtherPlaces, OtherImages,   \* those of the parts about images
    Products, Categories, MAX_PRODUCTS_PER_USER,
    Host, Production, MaxGenerations, MaxMemberDocs

\* What the components call doc, place and accounts is called content, position
\* and members in Ownership; Product calls its accounts sellers.
VARIABLES content, position, members, files, left, interrupted,
          products, sellers, db, bucket, run

Cascade == INSTANCE Ownership WITH
    Reviews <- {}, Comments <- {}, Images <- {}, Requests <- {alone},
    doc <- content, place <- position, accounts <- members
Threads == INSTANCE Ownership WITH
    Places <- OtherPlaces, Images <- OtherImages, Favorites <- {}, Notifications <- {},
    Requests <- {alone}, doc <- content, place <- position, accounts <- members
Uploads == INSTANCE Ownership WITH
    Users <- OtherUsers, Places <- {}, Reviews <- {}, Comments <- {}, Favorites <- {},
    Notifications <- {}, doc <- content, place <- position, accounts <- members

Selling == INSTANCE Product WITH
    Users <- OtherUsers, accounts <- sellers

Seed == INSTANCE Seeding

ASSUME OwnershipPartsAssumption ==
    /\ Cascade!OwnershipAssumption
    /\ Threads!OwnershipAssumption
    /\ Uploads!OwnershipAssumption
    /\ Selling!ProductAssumption
    /\ Seed!SeedingAssumption

contentVars == <<content, position, members, files, left, interrupted>>
productVars == <<products, sellers>>
seedVars    == <<db, bucket, run>>
ownershipVars == <<part, contentVars, productVars, seedVars, req>>

contentUnused ==
    /\ content = Unused /\ position = Unused /\ members = Unused
    /\ files = Unused /\ left = Unused /\ interrupted = Unused
productUnused == products = Unused /\ sellers = Unused
seedUnused    == db = Unused /\ bucket = Unused /\ run = Unused

OwnershipInit ==
    \/ /\ \/ part = "cascade" /\ Cascade!Init
          \/ part = "threads" /\ Threads!Init
          \/ part = "uploads" /\ Uploads!Init
       /\ productUnused /\ seedUnused
    \/ part = "selling" /\ Selling!Init /\ contentUnused /\ seedUnused
    \/ part = "seed" /\ Seed!Init /\ contentUnused /\ productUnused /\ req = Unused

OwnershipNext ==
    /\ UNCHANGED part
    /\ \/ /\ \/ part = "cascade" /\ Cascade!Next
             \/ part = "threads" /\ Threads!Next
             \/ part = "uploads" /\ Uploads!Next
          /\ UNCHANGED <<productVars, seedVars>>
       \/ part = "selling" /\ Selling!Next /\ UNCHANGED <<contentVars, seedVars>>
       \/ part = "seed" /\ Seed!Next /\ UNCHANGED <<contentVars, productVars, req>>

OwnershipSpec == OwnershipInit /\ [][OwnershipNext]_ownershipVars

-----------------------------------------------------------------------------
(* The properties of the parts                                             *)

\* Every part keeps to its types.
OwnershipTypeOK ==
    /\ part = "cascade" => Cascade!TypeOK
    /\ part = "threads" => Threads!TypeOK
    /\ part = "uploads" => Uploads!TypeOK
    /\ part = "selling" => Selling!TypeOK
    /\ part = "seed" => Seed!TypeOK

\* One request at a time, no cascade leaves a reference to what it deleted,
\* even when it is interrupted (CascadeDelete, DeleteAccount).  Nor does a run of the seed
\* script, wherever it breaks off, but for users and their place or image and images and
\* their event, which refer to each other: a run that ended leaves none of those either.
NoDangling ==
    /\ part = "cascade" => Cascade!NoDangling
    /\ part = "threads" => Threads!NoDangling
    /\ part = "seed" => Seed!NoDangling

\* The files of a stored image are in the bucket, however requests overlap and
\* wherever the seed script breaks off.
ImagesHaveFiles ==
    /\ part = "threads" => Threads!ImagesHaveFiles
    /\ part = "uploads" => Uploads!ImagesHaveFiles
    /\ part = "seed" => Seed!ImagesHaveFiles

\* A user is linked to the place it owns, one request at a time; in a seed that is
\* complete, each of the two refers to the other.
PlaceLinkAgrees ==
    /\ part = "cascade" => Cascade!PlaceLinkAgrees
    /\ part = "seed" => Seed!PlaceLinkAgrees

\* The limit of products is passed by no more than the requests served at once, less
\* one.
ProductQuota == part = "selling" => Selling!ProductQuota
=============================================================================
