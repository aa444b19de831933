------------------------------- MODULE Accounts -------------------------------
(***************************************************************************)
(* Accounts and authentication: registration, e-mail verification,         *)
(* password reset, sign-in with a password or with Google, two-factor      *)
(* authentication, edits of the profile, deletion of the account, and the  *)
(* administrators' bans, removals and restorations.  Every handler reads   *)
(* the whole user, derives another from that copy and writes the whole of  *)
(* it back; between the two, other requests may write the same document.   *)
(***************************************************************************)
EXTENDS Integers, FiniteSets

CONSTANTS
    Emails,     \* the addresses people register with
    UserIds,    \* the documents of the collection, their ids never reissued
    Requests,   \* the requests that may be in flight together
    Moderators, \* those among them an administrator may send
    None,
    MaxSecrets  \* bound: links, challenges and recovery codes drawn in a run

\* What is asked of the constants; the module of each run asserts it of its values.
AccountsAssumption ==
    /\ MaxSecrets \in Nat /\ IsFiniteSet(UserIds) /\ Moderators \subseteq Requests
    /\ None \notin Emails /\ None \notin UserIds

VARIABLES
    users,     \* the documents of the collection
    lapsed,    \* bans with a duration have run out
    secrets,   \* how many secrets were drawn: each is a fresh number
    uses,      \* how often each secret was accepted
    sessions,  \* users to whom a session was issued
    proven,    \* users whose address was proved by a mailed link or by Google
    req        \* the requests in flight

vars == <<users, lapsed, secrets, uses, sessions, proven, req>>

Secrets == 1 .. MaxSecrets
NoSecret == 0
MaxUses  == 2   \* bound: more uses of a secret than this are not counted

\* The part of the user the properties tell apart.  A secret is held as a hash.
Users ==
    [state     : {"stored"},
     email     : Emails,
     verified  : BOOLEAN,                  \* emailVerified
     verify    : Secrets \cup {NoSecret},  \* emailVerificationTokenHash
     password  : {"chosen", "random"},     \* random: drawn for a Google user
     reset     : Secrets \cup {NoSecret},  \* resetPasswordTokenHash
     google    : BOOLEAN,                  \* googleId is set
     totp      : {"off", "setup", "on"},   \* totpSecret and totpEnabled
     challenge : Secrets \cup {NoSecret},  \* twoFactorChallengeHash
     codes     : SUBSET Secrets,           \* recoveryCodeHashes
     ban       : {"none", "temporary", "permanent"},
     deleted   : BOOLEAN]

\* User.register: a guest who has yet to prove the address.
register(e, token) ==
    [state |-> "stored", email |-> e, verified |-> FALSE, verify |-> token,
     password |-> "chosen", reset |-> NoSecret, google |-> FALSE, totp |-> "off",
     challenge |-> NoSecret, codes |-> {}, ban |-> "none", deleted |-> FALSE]

\* User.registerFromGoogle
registerFromGoogle(e) ==
    [register(e, NoSecret) EXCEPT !.verified = TRUE, !.google = TRUE,
                                  !.password = "random"]

Absent  == [state |-> "absent", email |-> None]
Removed == [state |-> "removed", email |-> None]

Idle == [pc |-> "idle", id |-> None, copy |-> Absent, accepted |-> {},
         then |-> "done", factor |-> FALSE]

Local ==
    [pc       : {"idle", "register:create", "google:email", "google:create",
                 "google:find", "verified", "write", "mail", "reload", "session",
                 "account:delete"},
     id       : UserIds \cup {None},
     copy     : Users \cup {Absent},  \* the user to write
     accepted : SUBSET Secrets,       \* the secrets the request was let in by
     then     : {"done", "moderated", "mail", "reset mail", "google:find",
                 "reload", "session"},
     factor   : BOOLEAN]              \* a second factor was presented

TypeOK ==
    /\ users \in [UserIds -> Users \cup {Absent, Removed}]
    /\ lapsed \in BOOLEAN
    /\ secrets \in 0 .. MaxSecrets
    /\ uses \in [Secrets -> 0 .. MaxUses]
    /\ sessions \subseteq UserIds
    /\ proven \subseteq UserIds
    /\ req \in [Requests -> Local]

Init ==
    /\ users = [u \in UserIds |-> Absent]
    /\ lapsed = FALSE
    /\ secrets = 0
    /\ uses = [s \in Secrets |-> 0]
    /\ sessions = {}
    /\ proven = {}
    /\ req = [r \in Requests |-> Idle]

-----------------------------------------------------------------------------
(* The user: what each method of the entity changes in a copy              *)

isBanActive(user) ==
    user.ban = "permanent" \/ (user.ban = "temporary" /\ ~lapsed)

canAuthenticate(user) == ~user.deleted /\ ~isBanActive(user)

setEmailVerificationToken(user, token) == [user EXCEPT !.verify = token]

verifyEmail(user) == [user EXCEPT !.verified = TRUE, !.verify = NoSecret]

setPasswordResetToken(user, token) == [user EXCEPT !.reset = token]

clearPasswordResetToken(user) == [user EXCEPT !.reset = NoSecret]

\* Faulty variant: the reset link stays valid.
setPasswordHashOnly(user) == [user EXCEPT !.password = "chosen"]

setPasswordHash(user) == [user EXCEPT !.password = "chosen", !.reset = NoSecret]

linkGoogleAccount(user) == [user EXCEPT !.google = TRUE]

\* Faulty variant: the password is unset.
mergeWithoutPassword(user) ==
    [user EXCEPT !.google = TRUE, !.password = None, !.verified = TRUE,
                 !.verify = NoSecret]

\* Faulty variant: the user is built anew, in good standing.
mergeAsNewUser(user) == registerFromGoogle(user.email)

mergeUnverifiedWithGoogle(user) ==
    [user EXCEPT !.google = TRUE, !.password = "random", !.verified = TRUE,
                 !.verify = NoSecret]

startTotpSetup(user) ==
    [user EXCEPT !.totp = "setup", !.codes = {}, !.challenge = NoSecret]

confirmTotp(user, codes) ==
    [user EXCEPT !.totp = "on", !.codes = codes, !.challenge = NoSecret]

disableTotp(user) ==
    [user EXCEPT !.totp = "off", !.codes = {}, !.challenge = NoSecret]

setTwoFactorChallenge(user, token) == [user EXCEPT !.challenge = token]

clearTwoFactorChallenge(user) == [user EXCEPT !.challenge = NoSecret]

consumeRecoveryCode(user, c) == [user EXCEPT !.codes = @ \ {c}]

ban(user, kind)  == [user EXCEPT !.ban = kind]
unban(user)      == [user EXCEPT !.ban = "none"]
softDelete(user) == [user EXCEPT !.deleted = TRUE]
restore(user)    == [user EXCEPT !.deleted = FALSE]

-----------------------------------------------------------------------------
(* Repository operations                                                   *)

stored(u) == users[u].state = "stored"

findByEmail(e) == {u \in UserIds : users[u].email = e}

findByGoogleId(e) == {u \in findByEmail(e) : users[u].google}

findBySecret(field, s) ==
    {u \in UserIds : s # NoSecret /\ stored(u) /\ users[u][field] = s}

\* Faulty variant: the collection has no unique index.
createUnindexed(u, user) ==
    /\ users[u] = Absent
    /\ users' = [users EXCEPT ![u] = user]

\* The unique index on the address makes a second creation throw.
create(u, user) ==
    /\ users[u] = Absent
    /\ findByEmail(user.email) = {}
    /\ users' = [users EXCEPT ![u] = user]

\* The mapper sets or unsets every field the copy holds, those the handler did
\* not mean to change included; a link to Google is set and never unset.
toAuthPersistence(stale, user) == [stale EXCEPT !.google = @ \/ user.google]

update(u, copy) ==
    users' = IF stored(u)
             THEN [users EXCEPT ![u] = toAuthPersistence(copy, users[u])]
             ELSE users

-----------------------------------------------------------------------------
(* Steps the handlers share                                                *)

finish(r) == req' = [req EXCEPT ![r] = Idle]

\* Write copy to u, then go on to the step named.
goWrite(r, u, copy, then) ==
    req' = [req EXCEPT ![r] = [Idle EXCEPT !.pc = "write", !.id = u, !.copy = copy,
                                           !.then = then]]

\* The same for a request that presented secrets.
goWriteBy(r, u, copy, then, accepted) ==
    req' = [req EXCEPT ![r] = [Idle EXCEPT !.pc = "write", !.id = u, !.copy = copy,
                    !.then = then, !.accepted = accepted, !.factor = TRUE]]

draw(n) == secrets + n <= MaxSecrets /\ secrets' = secrets + n
fresh   == secrets + 1

others == UNCHANGED <<users, lapsed, uses, sessions, proven>>

\* An unknown user, a wrong code, an expired secret, a refusal by a conflict,
\* every other throw after the first operation, and a crash.
RequestFail(r) ==
    /\ req[r] # Idle
    /\ finish(r)
    /\ UNCHANGED secrets /\ others

\* userRepository.update, the only write of all handlers but three.
Write(r) ==
    /\ req[r].pc = "write"
    /\ update(req[r].id, req[r].copy)
    /\ uses' = [s \in Secrets |-> IF s \in req[r].accepted /\ uses[s] < MaxUses
                                THEN uses[s] + 1 ELSE uses[s]]
    /\ req' = [req EXCEPT ![r] =
            CASE req[r].then \in {"done", "moderated"} -> Idle
              [] req[r].then = "mail" -> [Idle EXCEPT !.pc = "mail"]
              [] req[r].then = "reset mail" -> [req[r] EXCEPT !.pc = "mail"]
              [] OTHER -> [Idle EXCEPT !.pc = req[r].then, !.id = req[r].id,
                                       !.factor = req[r].factor]]
    /\ UNCHANGED <<lapsed, secrets, sessions, proven>>

\* The message leaves, or the mail service refuses it; RequestPasswordReset then
\* writes the copy it read back, without the link.
Mail(r) ==
    /\ req[r].pc = "mail"
    /\ \/ finish(r)
       \/ /\ req[r].then = "reset mail"
          /\ goWrite(r, req[r].id, clearPasswordResetToken(req[r].copy), "done")
    /\ UNCHANGED secrets /\ others

\* UpdateUser reads the account again before it issues a session.
Reload(r) ==
    /\ req[r].pc = "reload" /\ stored(req[r].id)
    /\ req' = [req EXCEPT ![r].pc = "session"]
    /\ UNCHANGED secrets /\ others

\* jwtTokenIssuer.issue and the answer
Session(r) ==
    /\ req[r].pc = "session"
    /\ sessions' = sessions \cup {req[r].id}
    /\ finish(r)
    /\ UNCHANGED <<users, lapsed, secrets, uses, proven>>

-----------------------------------------------------------------------------
(* Register, ResendVerificationEmail, VerifyEmail                          *)

RegisterFind(r) ==
    /\ req[r] = Idle
    /\ draw(1)
    /\ \E e \in Emails :
        \/ /\ findByEmail(e) = {}
           /\ req' = [req EXCEPT ![r] = [Idle EXCEPT !.pc = "register:create",
                            !.copy = register(e, fresh)]]
        \/ \E u \in findByEmail(e) :
           /\ ~users[u].verified
           /\ goWrite(r, u, setEmailVerificationToken(users[u], fresh), "mail")
    /\ others

RegisterCreate(r) ==
    /\ req[r].pc = "register:create"
    /\ \E u \in UserIds : create(u, req[r].copy)
    /\ req' = [req EXCEPT ![r] = [Idle EXCEPT !.pc = "mail"]]
    /\ UNCHANGED <<lapsed, secrets, uses, sessions, proven>>

ResendVerificationEmail(r) ==
    /\ req[r] = Idle
    /\ draw(1)
    /\ \E e \in Emails : \E u \in findByEmail(e) :
        /\ ~users[u].verified
        /\ goWrite(r, u, setEmailVerificationToken(users[u], fresh), "mail")
    /\ others

\* Only the owner of the address has the link.
VerifyEmail(r) ==
    /\ req[r] = Idle
    /\ \E s \in Secrets : \E u \in findBySecret("verify", s) :
        /\ goWriteBy(r, u, verifyEmail(users[u]), "done", {s})
        /\ proven' = proven \cup {u}
    /\ UNCHANGED <<users, lapsed, secrets, uses, sessions>>

(* RequestPasswordReset, ResetPassword; of any account, also one that is
   banned, removed or not verified *)

RequestPasswordReset(r) ==
    /\ req[r] = Idle
    /\ draw(1)
    /\ \E e \in Emails : \E u \in findByEmail(e) :
        goWrite(r, u, setPasswordResetToken(users[u], fresh), "reset mail")
    /\ others

ResetPassword(r) ==
    /\ req[r] = Idle
    /\ \E s \in Secrets : \E u \in findBySecret("reset", s) :
        goWriteBy(r, u, setPasswordHash(users[u]), "done", {s})
    /\ UNCHANGED secrets /\ others

(* SignIn, GoogleAuth, VerifyTwoFactor *)

\* A challenge when a second factor is set up, else a session.
signInAs(r, u) ==
    \/ /\ users[u].totp = "on"
       /\ draw(1)
       /\ goWrite(r, u, setTwoFactorChallenge(users[u], fresh), "done")
    \/ /\ users[u].totp # "on"
       /\ goWrite(r, u, users[u], "session")
       /\ UNCHANGED secrets

\* Faulty variant: the address need not be verified.
SignInUnverified(r) ==
    /\ req[r] = Idle
    /\ \E u \in UserIds :
        /\ stored(u) /\ users[u].password = "chosen"
        /\ canAuthenticate(users[u])
        /\ signInAs(r, u)
    /\ others

SignIn(r) ==
    /\ req[r] = Idle
    /\ \E u \in UserIds :
        /\ stored(u) /\ users[u].password = "chosen"
        /\ users[u].verified /\ canAuthenticate(users[u])
        /\ signInAs(r, u)
    /\ others

\* Google vouches for the address of the identity.
GoogleAuthFind(r) ==
    /\ req[r] = Idle
    /\ \E e \in Emails :
        \/ \E u \in findByGoogleId(e) :
            req' = [req EXCEPT ![r] = [Idle EXCEPT !.pc = "google:find", !.id = u]]
        \/ /\ findByGoogleId(e) = {}
           /\ req' = [req EXCEPT ![r] = [Idle EXCEPT !.pc = "google:email",
                                            !.copy = registerFromGoogle(e)]]
    /\ UNCHANGED secrets /\ others

GoogleAuthFindByEmail(r) ==
    /\ req[r].pc = "google:email"
    /\ LET found == findByEmail(req[r].copy.email) IN
        \/ \E u \in found :
            /\ goWrite(r, u, IF users[u].verified
                             THEN linkGoogleAccount(users[u])
                             ELSE mergeUnverifiedWithGoogle(users[u]), "google:find")
            /\ proven' = proven \cup {u}
        \/ /\ found = {}
           /\ req' = [req EXCEPT ![r].pc = "google:create"]
           /\ UNCHANGED proven
    /\ UNCHANGED <<users, lapsed, secrets, uses, sessions>>

GoogleAuthCreate(r) ==
    /\ req[r].pc = "google:create"
    /\ \E u \in UserIds :
        /\ create(u, req[r].copy)
        /\ req' = [req EXCEPT ![r] = [Idle EXCEPT !.pc = "google:find", !.id = u]]
        /\ proven' = proven \cup {u}
    /\ UNCHANGED <<lapsed, secrets, uses, sessions>>

\* Faulty variant: a session without looking at the account again.
buildAuthResponseUnchecked(r) ==
    /\ req[r].pc = "google:find"
    /\ stored(req[r].id)
    /\ signInAs(r, req[r].id)
    /\ others

buildAuthResponse(r) ==
    /\ req[r].pc = "google:find"
    /\ stored(req[r].id) /\ canAuthenticate(users[req[r].id])
    /\ signInAs(r, req[r].id)
    /\ others

\* Faulty variant: the recovery code stays on the list.
VerifyTwoFactorKeepsCode(r) ==
    /\ req[r] = Idle
    /\ \E s \in Secrets : \E u \in findBySecret("challenge", s) :
        LET signedIn == clearTwoFactorChallenge(users[u])
        IN  /\ users[u].totp = "on" /\ canAuthenticate(users[u])
            /\ \/ goWriteBy(r, u, signedIn, "session", {s})
               \/ \E c \in users[u].codes :
                    goWriteBy(r, u, signedIn, "session", {s, c})
    /\ UNCHANGED secrets /\ others

\* The challenge, and with it the code of the authenticator or a recovery code.
VerifyTwoFactor(r) ==
    /\ req[r] = Idle
    /\ \E s \in Secrets : \E u \in findBySecret("challenge", s) :
        LET signedIn == clearTwoFactorChallenge(users[u])
        IN  /\ users[u].totp = "on" /\ canAuthenticate(users[u])
            /\ \/ goWriteBy(r, u, signedIn, "session", {s})
               \/ \E c \in users[u].codes :
                    goWriteBy(r, u, consumeRecoveryCode(signedIn, c), "session", {s, c})
    /\ UNCHANGED secrets /\ others

(* Requests of a signed-in user: the middleware reads the account, and the
   handler reads it again *)

Verify(r) ==
    /\ req[r] = Idle
    /\ \E u \in sessions :
        /\ stored(u) /\ canAuthenticate(users[u])
        /\ req' = [req EXCEPT ![r] = [Idle EXCEPT !.pc = "verified", !.id = u]]
    /\ UNCHANGED secrets /\ others

verified(r) == req[r].pc = "verified" /\ stored(req[r].id)
me(r) == users[req[r].id]

\* The terms and the preference are read and written like the rest.
AcceptCgu(r) ==
    /\ verified(r)
    /\ goWrite(r, req[r].id, me(r), "done")
    /\ UNCHANGED secrets /\ others

SetupTwoFactor(r) ==
    /\ verified(r) /\ me(r).totp # "on"
    /\ goWrite(r, req[r].id, startTotpSetup(me(r)), "done")
    /\ UNCHANGED secrets /\ others

\* Three recovery codes are drawn; two show what several are good for.
ConfirmTwoFactor(r) ==
    /\ verified(r) /\ me(r).totp = "setup"
    /\ draw(2)
    /\ goWrite(r, req[r].id, confirmTotp(me(r), {fresh, fresh + 1}), "done")
    /\ others

DisableTwoFactor(r) ==
    /\ verified(r) /\ me(r).totp = "on"
    /\ \E c \in {{}} \cup {{code} : code \in me(r).codes} :
        goWriteBy(r, req[r].id, disableTotp(me(r)), "done", c)
    /\ UNCHANGED secrets /\ others

\* A change of the type of user issues the session anew.
UpdateUser(r) ==
    /\ verified(r) /\ ~me(r).deleted
    /\ \E then \in {"done", "reload"} : goWriteBy(r, req[r].id, me(r), then, {})
    /\ UNCHANGED secrets /\ others

DeleteAccountFind(r) ==
    /\ verified(r)
    /\ req' = [req EXCEPT ![r].pc = "account:delete"]
    /\ UNCHANGED secrets /\ others

DeleteAccountUser(r) ==
    /\ req[r].pc = "account:delete"
    /\ users' = [users EXCEPT ![req[r].id] = Removed]
    /\ finish(r)
    /\ UNCHANGED <<lapsed, secrets, uses, sessions, proven>>

(* The administrators, never on their own account *)

BanAdminUser(r) ==
    /\ req[r] = Idle
    /\ \E u \in UserIds, kind \in {"temporary", "permanent"} :
        /\ stored(u)
        /\ kind = "temporary" => ~lapsed
        /\ goWrite(r, u, ban(users[u], kind), "moderated")
    /\ UNCHANGED secrets /\ others

UnbanAdminUser(r) ==
    /\ req[r] = Idle
    /\ \E u \in UserIds :
        /\ stored(u)
        /\ goWrite(r, u, unban(users[u]), "moderated")
    /\ UNCHANGED secrets /\ others

SoftDeleteAdminUser(r) ==
    /\ req[r] = Idle
    /\ \E u \in UserIds :
        /\ stored(u)
        /\ goWrite(r, u, softDelete(users[u]), "moderated")
    /\ UNCHANGED secrets /\ others

RestoreAdminUser(r) ==
    /\ req[r] = Idle
    /\ \E u \in UserIds :
        /\ stored(u)
        /\ goWrite(r, u, restore(users[u]), "moderated")
    /\ UNCHANGED secrets /\ others

\* banExpiresAt passes.
BansLapse ==
    /\ ~lapsed
    /\ lapsed' = TRUE
    /\ UNCHANGED <<users, secrets, uses, sessions, proven, req>>

-----------------------------------------------------------------------------

Moderate(r) ==
    /\ r \in Moderators
    /\ \/ BanAdminUser(r) \/ UnbanAdminUser(r)
       \/ SoftDeleteAdminUser(r) \/ RestoreAdminUser(r)

Step(r) ==
    \/ RegisterFind(r) \/ RegisterCreate(r) \/ ResendVerificationEmail(r)
    \/ VerifyEmail(r) \/ RequestPasswordReset(r) \/ ResetPassword(r)
    \/ SignIn(r) \/ GoogleAuthFind(r) \/ GoogleAuthFindByEmail(r)
    \/ GoogleAuthCreate(r) \/ buildAuthResponse(r)
    \/ VerifyTwoFactor(r) \/ Verify(r) \/ AcceptCgu(r) \/ SetupTwoFactor(r)
    \/ ConfirmTwoFactor(r) \/ DisableTwoFactor(r) \/ UpdateUser(r)
    \/ DeleteAccountFind(r) \/ DeleteAccountUser(r) \/ Moderate(r)
    \/ Write(r) \/ Mail(r) \/ Reload(r) \/ Session(r) \/ RequestFail(r)

Next == BansLapse \/ \E r \in Requests : Step(r)

Spec == Init /\ [][Next]_vars

-----------------------------------------------------------------------------
(* Safety                                                                  *)

\* However many registrations and Google sign-ins overlap, an address has one
\* account (User.schema.ts:79, Register:43, GoogleAuth:143).
OneAccountPerEmail ==
    \A e \in Emails : Cardinality(findByEmail(e)) <= 1

\* However requests overlap, and whatever stale copies they write back, nobody
\* holds a session of an account whose address was never proved by a mailed
\* link or by Google (SignIn:48, VerifyEmail:29, GoogleAuth:117).
SessionsProven == sessions \subseteq proven

\* With one request at a time, a link that verifies or resets, a two-factor
\* challenge and a recovery code are each accepted once (User.entity:496-651).
OneTimeSecrets == \A s \in Secrets : uses[s] <= 1

\* With one request at a time, a session is issued only for an account that is
\* neither removed nor banned at that moment, and past its second factor when
\* one is set up (SignIn:48-66, GoogleAuth:55-77, VerifyTwoFactor:39-56).
IssuedInGoodStanding ==
    \A r \in Requests :
        Session(r) =>
            /\ stored(req[r].id) /\ canAuthenticate(me(r))
            /\ me(r).totp = "on" => req[r].factor

\* With one request at a time, what an administrator decided stays until an
\* administrator changes it: no other handler lifts a ban or a removal, or
\* imposes one, though each writes those fields (User.mapper:144-203).
DecisionKept ==
    \A r \in Requests, u \in UserIds :
        (Write(r) /\ stored(u) /\ req[r].then # "moderated") =>
            users'[u].ban = users[u].ban /\ users'[u].deleted = users[u].deleted
=============================================================================
