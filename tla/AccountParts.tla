----------------------------- MODULE AccountParts -----------------------------
(***************************************************************************)
(* The accounts with several requests at once, and with one request at a   *)
(* time, which administrators may send too and which may draw more secrets.*)
(***************************************************************************)
EXTENDS Parts

CONSTANTS
    Emails, UserIds, Moderators,
    FewSecrets, MaxSecrets   \* of the part with several requests, and of the other

VARIABLES users, lapsed, secrets, uses, sessions, proven

One == INSTANCE Accounts WITH
    Requests <- {alone}, Moderators <- {alone}
Two == INSTANCE Accounts WITH
    MaxSecrets <- FewSecrets

ASSUME AccountPartsAssumption == One!AccountsAssumption /\ Two!AccountsAssumption

accountVars == <<part, users, lapsed, secrets, uses, sessions, proven, req>>

AccountInit ==
    \/ part = "one" /\ One!Init
    \/ part = "two" /\ Two!Init

AccountNext ==
    /\ UNCHANGED part
    /\ \/ part = "one" /\ One!Next
       \/ part = "two" /\ Two!Next

AccountSpec == AccountInit /\ [][AccountNext]_accountVars

-----------------------------------------------------------------------------
(* The properties of the parts                                             *)

\* Both parts keep to their types.
AccountTypeOK ==
    /\ part = "one" => One!TypeOK
    /\ part = "two" => Two!TypeOK

\* An address has one account, however registrations and Google sign-ins overlap.
OneAccountPerEmail ==
    /\ part = "one" => One!OneAccountPerEmail
    /\ part = "two" => Two!OneAccountPerEmail

\* However requests overlap, nobody holds a session of an account whose address was
\* never proved.
SessionsProven ==
    /\ part = "one" => One!SessionsProven
    /\ part = "two" => Two!SessionsProven

\* A link, a challenge or a recovery code is accepted once, one request at a time.
SecretsUsedOnce == part = "one" => One!OneTimeSecrets

\* A session is issued in good standing and past the second factor, one request
\* at a time.
GoodStanding == [][part = "one" => One!IssuedInGoodStanding]_accountVars

\* Only an administrator undoes what an administrator decided, one request at a
\* time.
DecisionsKept == [][part = "one" => One!DecisionKept]_accountVars
=============================================================================
