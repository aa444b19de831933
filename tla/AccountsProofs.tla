---------------------------- MODULE AccountsProofs ----------------------------
(***************************************************************************)
(* Proofs about Accounts, for every set of addresses, ids, requests and    *)
(* moderators and any number of secrets: the types, one account for each   *)
(* address, and sessions only of accounts whose address was proved.        *)
(*                                                                         *)
(* Every handler writes back the whole user it read, so the invariant must *)
(* say of the copies in flight what it says of the documents: a copy that  *)
(* is verified, tied to Google or challenged is of an account whose        *)
(* address was proved, and it still has the address of its document.       *)
(***************************************************************************)
EXTENDS Accounts, FiniteSetTheorems, TLAPS

\* What only the owner of the address brings about.
Evidence(user) == user.verified \/ user.google \/ user.challenge # NoSecret

SessionSteps == {"google:find", "reload", "session"}

\* The request holds a copy of a user it has yet to write.
writing(l) == l.pc = "write" \/ (l.pc = "mail" /\ l.then = "reset mail")

\* What a handler relies on when it resumes.
LocalOK(l, store, known) ==
    /\ l.pc \in {"register:create", "google:email", "google:create"} => l.copy \in Users
    /\ l.pc = "register:create" => ~Evidence(l.copy)
    /\ writing(l) =>
        /\ l.id \in UserIds /\ l.copy \in Users
        /\ store[l.id].state # "absent"
        /\ store[l.id].state = "stored" => store[l.id].email = l.copy.email
        /\ Evidence(l.copy) => l.id \in known
    /\ l.pc = "write" /\ l.then \in SessionSteps => l.id \in known
    /\ l.pc \in SessionSteps \cup {"verified", "account:delete"} => l.id \in known

OneAccountInv ==
    \A u, v \in UserIds : stored(u) /\ stored(v) /\ users[u].email = users[v].email => u = v

EvidenceInv == \A u \in UserIds : stored(u) /\ Evidence(users[u]) => u \in proven

Inv ==
    /\ TypeOK /\ OneAccountInv /\ EvidenceInv /\ SessionsProven
    /\ \A r \in Requests : LocalOK(req[r], users, proven)

-----------------------------------------------------------------------------
(* The user                                                                *)

LEMMA StoredType ==
    ASSUME AccountsAssumption, TypeOK, NEW u \in UserIds
    PROVE  /\ stored(u) => users[u] \in Users
           /\ users[u].email \in Emails => stored(u)
           /\ ~stored(u) => users[u] \in {Absent, Removed}
<1>1. /\ Absent.state = "absent" /\ Removed.state = "removed"
      /\ Absent.email = None /\ Removed.email = None
  BY DEF Absent, Removed
<1>2. \A user \in Users : user.state = "stored" /\ user.email \in Emails
  BY DEF Users
<1>3. users[u] \in Users \cup {Absent, Removed} /\ None \notin Emails
  BY DEF TypeOK, AccountsAssumption
<1> QED BY <1>1, <1>2, <1>3 DEF stored

LEMMA IdleOK ==
    ASSUME NEW store, NEW known
    PROVE  Idle \in Local /\ LocalOK(Idle, store, known)
BY DEF Idle, Local, LocalOK, writing, SessionSteps

\* The copy is of the same account and tells no more of its owner.
Rewrites(new, old) == new \in Users /\ new.email = old.email
NothingNew(new, old) == Evidence(new) => Evidence(old)

LEMMA SecretType == NoSecret \notin Secrets
BY DEF NoSecret, Secrets

\* What each method of the entity makes of a copy.
LEMMA Methods ==
    ASSUME NEW user \in Users, NEW s \in Secrets
    PROVE  /\ Rewrites(setEmailVerificationToken(user, s), user)
           /\ NothingNew(setEmailVerificationToken(user, s), user)
           /\ Rewrites(setPasswordResetToken(user, s), user)
           /\ NothingNew(setPasswordResetToken(user, s), user)
           /\ Rewrites(setPasswordHash(user), user)
           /\ NothingNew(setPasswordHash(user), user)
           /\ Rewrites(verifyEmail(user), user)
           /\ Rewrites(linkGoogleAccount(user), user)
           /\ Rewrites(mergeUnverifiedWithGoogle(user), user)
           /\ Rewrites(setTwoFactorChallenge(user, s), user)
           /\ Rewrites(clearTwoFactorChallenge(user), user)
           /\ Rewrites(startTotpSetup(user), user)
           /\ Rewrites(disableTotp(user), user)
<1> USE DEF Rewrites, Users
<1>1. /\ Rewrites(setEmailVerificationToken(user, s), user)
      /\ Rewrites(setPasswordResetToken(user, s), user)
      /\ Rewrites(setPasswordHash(user), user)
  BY DEF setEmailVerificationToken, setPasswordResetToken, setPasswordHash
<1>2. /\ NothingNew(setEmailVerificationToken(user, s), user)
      /\ NothingNew(setPasswordResetToken(user, s), user)
      /\ NothingNew(setPasswordHash(user), user)
  BY DEF NothingNew, Evidence, setEmailVerificationToken, setPasswordResetToken,
         setPasswordHash
<1>3. /\ Rewrites(verifyEmail(user), user)
      /\ Rewrites(linkGoogleAccount(user), user)
      /\ Rewrites(mergeUnverifiedWithGoogle(user), user)
  BY DEF verifyEmail, linkGoogleAccount, mergeUnverifiedWithGoogle
<1>4. /\ Rewrites(setTwoFactorChallenge(user, s), user)
      /\ Rewrites(clearTwoFactorChallenge(user), user)
  BY DEF setTwoFactorChallenge, clearTwoFactorChallenge
<1>5. Rewrites(startTotpSetup(user), user) /\ Rewrites(disableTotp(user), user)
  BY DEF startTotpSetup, disableTotp
<1> QED BY <1>1, <1>2, <1>3, <1>4, <1>5

LEMMA ClearReset ==
    ASSUME NEW user \in Users
    PROVE  Rewrites(clearPasswordResetToken(user), user)
           /\ NothingNew(clearPasswordResetToken(user), user)
<1>1. Rewrites(clearPasswordResetToken(user), user)
  BY DEF clearPasswordResetToken, Rewrites, Users
<1>2. NothingNew(clearPasswordResetToken(user), user)
  BY DEF clearPasswordResetToken, NothingNew, Evidence, Users
<1> QED BY <1>1, <1>2

LEMMA Codes ==
    ASSUME NEW user \in Users
    PROVE  /\ \A codes \in SUBSET Secrets : Rewrites(confirmTotp(user, codes), user)
           /\ \A c \in user.codes :
                Rewrites(consumeRecoveryCode(clearTwoFactorChallenge(user), c), user)
<1>1. \A codes \in SUBSET Secrets : Rewrites(confirmTotp(user, codes), user)
  BY DEF confirmTotp, Rewrites, Users
<1>2. \A c \in user.codes :
        Rewrites(consumeRecoveryCode(clearTwoFactorChallenge(user), c), user)
  BY DEF consumeRecoveryCode, clearTwoFactorChallenge, Rewrites, Users
<1> QED BY <1>1, <1>2

LEMMA Decisions ==
    ASSUME NEW user \in Users
    PROVE  /\ \A kind \in {"temporary", "permanent"} :
                Rewrites(ban(user, kind), user) /\ NothingNew(ban(user, kind), user)
           /\ Rewrites(unban(user), user) /\ NothingNew(unban(user), user)
           /\ Rewrites(softDelete(user), user) /\ NothingNew(softDelete(user), user)
           /\ Rewrites(restore(user), user) /\ NothingNew(restore(user), user)
<1>1. /\ \A kind \in {"temporary", "permanent"} : Rewrites(ban(user, kind), user)
      /\ Rewrites(unban(user), user)
      /\ Rewrites(softDelete(user), user) /\ Rewrites(restore(user), user)
  BY DEF ban, unban, softDelete, restore, Rewrites, Users
<1>2. /\ \A kind \in {"temporary", "permanent"} : NothingNew(ban(user, kind), user)
      /\ NothingNew(unban(user), user)
      /\ NothingNew(softDelete(user), user) /\ NothingNew(restore(user), user)
  BY DEF ban, unban, softDelete, restore, NothingNew, Evidence, Users
<1> QED BY <1>1, <1>2

-----------------------------------------------------------------------------
(* Steps                                                                   *)

\* A document keeps its address, is never stored again once it is gone, and is
\* never unmade.
KeptStore ==
    \A u \in UserIds :
        /\ users[u].state # "absent" => users'[u].state # "absent"
        /\ users[u].state # "absent" /\ users'[u].state = "stored"
                => users[u].state = "stored" /\ users'[u].email = users[u].email

\* A request moves on from l; the store, what is proven and the sessions only
\* change as they may.
LEMMA StepInv ==
    ASSUME Inv, KeptStore, proven \subseteq proven', proven' \subseteq UserIds,
           users' \in [UserIds -> Users \cup {Absent, Removed}],
           OneAccountInv', EvidenceInv', SessionsProven',
           lapsed' = lapsed, secrets' \in 0 .. MaxSecrets,
           uses' \in [Secrets -> 0 .. MaxUses],
           NEW r \in Requests, NEW l \in Local, LocalOK(l, users', proven'),
           req' = [req EXCEPT ![r] = l]
    PROVE  Inv'
<1>1. \A q \in Requests : req'[q] = IF q = r THEN l ELSE req[q]
  BY DEF Inv, TypeOK
<1>2. TypeOK'
  BY DEF Inv, TypeOK, SessionsProven
<1>3. ASSUME NEW q \in Requests PROVE LocalOK(req'[q], users', proven')
  <2>1. CASE q = r
    BY <1>1, <2>1
  <2>2. CASE q # r
    <3>1. req'[q] = req[q] /\ LocalOK(req[q], users, proven)
      BY <1>1, <2>2 DEF Inv
    <3> QED BY <3>1 DEF LocalOK, KeptStore
  <2> QED BY <2>1, <2>2
<1> QED BY <1>2, <1>3 DEF Inv

\* A request moves on and leaves the documents and the sessions alone.
LEMMA MoveInv ==
    ASSUME Inv, UNCHANGED <<users, lapsed, uses, sessions>>,
           proven \subseteq proven', proven' \subseteq UserIds,
           secrets' \in 0 .. MaxSecrets,
           NEW r \in Requests, NEW l \in Local, LocalOK(l, users, proven'),
           req' = [req EXCEPT ![r] = l]
    PROVE  Inv'
<1>1. OneAccountInv' /\ EvidenceInv' /\ SessionsProven'
  BY DEF Inv, OneAccountInv, EvidenceInv, SessionsProven, stored
<1>2. KeptStore
  BY DEF KeptStore
<1> QED BY <1>1, <1>2, StepInv DEF Inv, TypeOK

Thens == {"done", "moderated", "mail", "reset mail", "google:find", "reload", "session"}

\* A request sets out to write a copy of a stored user.
LEMMA GoWriteInv ==
    ASSUME Inv, UNCHANGED <<users, lapsed, uses, sessions>>,
           proven \subseteq proven', proven' \subseteq UserIds,
           secrets' \in 0 .. MaxSecrets,
           NEW r \in Requests, NEW u \in UserIds, stored(u),
           NEW copy, Rewrites(copy, users[u]), Evidence(copy) => u \in proven',
           NEW then \in Thens, then \in SessionSteps => u \in proven',
           \/ goWrite(r, u, copy, then)
           \/ \E accepted \in SUBSET Secrets : goWriteBy(r, u, copy, then, accepted)
    PROVE  Inv'
<1>1. copy \in Users /\ copy.email = users[u].email /\ users[u].state = "stored"
  BY DEF Rewrites, stored
<1>2. ASSUME NEW l \in Local, l.pc = "write", l.id = u, l.copy = copy, l.then = then
      PROVE  LocalOK(l, users, proven')
  BY <1>1, <1>2 DEF LocalOK, writing, SessionSteps
<1>3. CASE goWrite(r, u, copy, then)
  <2> DEFINE l == [Idle EXCEPT !.pc = "write", !.id = u, !.copy = copy, !.then = then]
  <2>1. l \in Local
    BY <1>1, IdleOK DEF Local, Thens
  <2>2. l.pc = "write" /\ l.id = u /\ l.copy = copy /\ l.then = then
    BY DEF Idle
  <2>3. req' = [req EXCEPT ![r] = l]
    BY <1>3 DEF goWrite
  <2> HIDE DEF l
  <2> QED BY <1>2, <2>1, <2>2, <2>3, MoveInv
<1>4. ASSUME NEW accepted \in SUBSET Secrets, goWriteBy(r, u, copy, then, accepted)
      PROVE  Inv'
  <2> DEFINE l == [Idle EXCEPT !.pc = "write", !.id = u, !.copy = copy,
                    !.then = then, !.accepted = accepted, !.factor = TRUE]
  <2>1. l \in Local
    BY <1>1, IdleOK DEF Local, Thens
  <2>2. l.pc = "write" /\ l.id = u /\ l.copy = copy /\ l.then = then
    BY DEF Idle
  <2>3. req' = [req EXCEPT ![r] = l]
    BY <1>4 DEF goWriteBy
  <2> HIDE DEF l
  <2> QED BY <1>2, <2>1, <2>2, <2>3, MoveInv
<1> QED BY <1>3, <1>4

LEMMA DrawType ==
    ASSUME AccountsAssumption, TypeOK, NEW n \in {1, 2}, draw(n)
    PROVE  /\ secrets' \in 0 .. MaxSecrets /\ fresh \in Secrets
           /\ n = 2 => {fresh, fresh + 1} \in SUBSET Secrets
<1>1. secrets \in Nat /\ MaxSecrets \in Nat /\ secrets + n <= MaxSecrets
      /\ secrets' = secrets + n
  BY DEF AccountsAssumption, TypeOK, draw
<1> QED BY <1>1 DEF fresh, Secrets

\* A handler that ends, wherever it was.
LEMMA FinishInv ==
    ASSUME Inv, NEW r \in Requests, finish(r),
           UNCHANGED <<users, lapsed, secrets, uses, sessions, proven>>
    PROVE  Inv'
<1>1. proven \subseteq proven' /\ proven' \subseteq UserIds /\ secrets' \in 0 .. MaxSecrets
  BY DEF Inv, TypeOK
<1> QED BY <1>1, IdleOK, MoveInv DEF finish

LEMMA FoundStored ==
    ASSUME AccountsAssumption, TypeOK, NEW e \in Emails, NEW u \in findByEmail(e)
    PROVE  u \in UserIds /\ stored(u) /\ users[u] \in Users
BY StoredType DEF findByEmail

LEMMA InitInv == ASSUME AccountsAssumption, Init PROVE Inv
<1>1. TypeOK
  <2>1. secrets \in 0 .. MaxSecrets
    BY DEF Init, AccountsAssumption
  <2>2. Idle \in Local
    BY DEF Idle, Local
  <2>3. users \in [UserIds -> Users \cup {Absent, Removed}]
    BY DEF Init
  <2>4. uses \in [Secrets -> 0 .. MaxUses]
    BY DEF Init, MaxUses
  <2>5. req \in [Requests -> Local]
    BY <2>2 DEF Init
  <2> QED BY <2>1, <2>3, <2>4, <2>5 DEF Init, TypeOK
<1>2. \A u \in UserIds : ~stored(u)
  BY DEF Init, stored, Absent
<1>3. \A r \in Requests : LocalOK(req[r], users, proven)
  BY IdleOK DEF Init
<1> QED BY <1>1, <1>2, <1>3 DEF Inv, OneAccountInv, EvidenceInv, SessionsProven, Init

\* What is known of a user whose document shows evidence.
LEMMA EvidenceKnown ==
    ASSUME Inv, NEW u \in UserIds, stored(u), Evidence(users[u])
    PROVE  u \in proven
BY DEF Inv, EvidenceInv

LEMMA Unchanged ==
    ASSUME Inv
    PROVE  proven \subseteq proven /\ proven \subseteq UserIds /\ secrets \in 0 .. MaxSecrets
BY DEF Inv, TypeOK

\* A handler that adds nothing to what the document tells of its owner.
LEMMA GoWriteSame ==
    ASSUME AccountsAssumption, Inv, others, secrets' \in 0 .. MaxSecrets,
           NEW r \in Requests, NEW u \in UserIds, stored(u),
           NEW copy, Rewrites(copy, users[u]), NothingNew(copy, users[u]),
           NEW then \in Thens \ SessionSteps,
           \/ goWrite(r, u, copy, then)
           \/ \E accepted \in SUBSET Secrets : goWriteBy(r, u, copy, then, accepted)
    PROVE  Inv'
<1>1. Evidence(copy) => u \in proven'
  BY EvidenceKnown DEF NothingNew, others
<1>2. proven \subseteq proven' /\ proven' \subseteq UserIds
  BY Unchanged DEF others
<1> QED BY <1>1, <1>2, GoWriteInv DEF others

\* A handler on behalf of a user whose address was proved.
LEMMA GoWriteKnown ==
    ASSUME AccountsAssumption, Inv, others, secrets' \in 0 .. MaxSecrets,
           NEW r \in Requests, NEW u \in proven, stored(u),
           NEW copy, Rewrites(copy, users[u]), NEW then \in Thens,
           \/ goWrite(r, u, copy, then)
           \/ \E accepted \in SUBSET Secrets : goWriteBy(r, u, copy, then, accepted)
    PROVE  Inv'
<1>1. proven \subseteq proven' /\ proven' \subseteq UserIds /\ u \in UserIds /\ u \in proven'
  BY Unchanged DEF others
<1> QED BY <1>1, GoWriteInv DEF others

-----------------------------------------------------------------------------
(* Every action keeps the invariant                                        *)

LEMMA RegisterFindInv ==
    ASSUME AccountsAssumption, Inv, NEW r \in Requests, RegisterFind(r)
    PROVE  Inv'
<1> USE DEF Inv
<1>1. others /\ secrets' \in 0 .. MaxSecrets /\ fresh \in Secrets
  BY DrawType DEF RegisterFind
<1>2. PICK e \in Emails :
        \/ /\ findByEmail(e) = {}
           /\ req' = [req EXCEPT ![r] = [Idle EXCEPT !.pc = "register:create",
                            !.copy = register(e, fresh)]]
        \/ \E u \in findByEmail(e) :
           /\ ~users[u].verified
           /\ goWrite(r, u, setEmailVerificationToken(users[u], fresh), "mail")
  BY DEF RegisterFind
<1>3. CASE req' = [req EXCEPT ![r] = [Idle EXCEPT !.pc = "register:create",
                            !.copy = register(e, fresh)]]
  <2> DEFINE l == [Idle EXCEPT !.pc = "register:create", !.copy = register(e, fresh)]
  <2>1. register(e, fresh) \in Users /\ ~Evidence(register(e, fresh))
    BY <1>1 DEF register, Users, Evidence
  <2>2. l \in Local
    BY <2>1, IdleOK DEF Local
  <2>3. l.pc = "register:create" /\ l.copy = register(e, fresh)
    BY DEF Idle
  <2>4. req' = [req EXCEPT ![r] = l]
    BY <1>3
  <2> HIDE DEF l
  <2>5. LocalOK(l, users, proven')
    BY <2>1, <2>3 DEF LocalOK, writing, SessionSteps
  <2> QED BY <1>1, <2>2, <2>4, <2>5, Unchanged, MoveInv DEF others
<1>4. ASSUME NEW u \in findByEmail(e),
             goWrite(r, u, setEmailVerificationToken(users[u], fresh), "mail")
      PROVE  Inv'
  <2>1. u \in UserIds /\ stored(u) /\ users[u] \in Users
    BY FoundStored
  <2>2. "mail" \in Thens \ SessionSteps
    BY DEF Thens, SessionSteps
  <2> QED BY <1>1, <1>4, <2>1, <2>2, Methods, GoWriteSame
<1> QED BY <1>2, <1>3, <1>4

LEMMA LinkInv ==
    ASSUME AccountsAssumption, Inv, NEW r \in Requests,
           ResendVerificationEmail(r) \/ RequestPasswordReset(r)
    PROVE  Inv'
<1> USE DEF Inv
<1>1. others /\ secrets' \in 0 .. MaxSecrets /\ fresh \in Secrets
  BY DrawType DEF ResendVerificationEmail, RequestPasswordReset
<1>2. PICK e \in Emails : \E u \in findByEmail(e) :
        \/ goWrite(r, u, setEmailVerificationToken(users[u], fresh), "mail")
        \/ goWrite(r, u, setPasswordResetToken(users[u], fresh), "reset mail")
  BY DEF ResendVerificationEmail, RequestPasswordReset
<1>3. PICK u \in findByEmail(e) :
        \/ goWrite(r, u, setEmailVerificationToken(users[u], fresh), "mail")
        \/ goWrite(r, u, setPasswordResetToken(users[u], fresh), "reset mail")
  BY <1>2
<1>4. u \in UserIds /\ stored(u) /\ users[u] \in Users
  BY FoundStored
<1>5. {"mail", "reset mail"} \subseteq Thens \ SessionSteps
  BY DEF Thens, SessionSteps
<1>6. CASE goWrite(r, u, setEmailVerificationToken(users[u], fresh), "mail")
  BY <1>1, <1>4, <1>5, <1>6, Methods, GoWriteSame
<1>7. CASE goWrite(r, u, setPasswordResetToken(users[u], fresh), "reset mail")
  BY <1>1, <1>4, <1>5, <1>7, Methods, GoWriteSame
<1> QED BY <1>3, <1>6, <1>7

\* A second account of the address is refused by the index.
LEMMA CreateInv ==
    ASSUME AccountsAssumption, Inv, NEW u \in UserIds, NEW copy \in Users,
           create(u, copy), proven \subseteq proven', proven' \subseteq UserIds,
           Evidence(copy) => u \in proven', UNCHANGED <<lapsed, secrets, uses, sessions>>,
           NEW r \in Requests, NEW l \in Local, LocalOK(l, users', proven'),
           req' = [req EXCEPT ![r] = l]
    PROVE  Inv'
<1>1. users' = [users EXCEPT ![u] = copy] /\ users \in [UserIds -> Users \cup {Absent, Removed}]
  BY DEF create, Inv, TypeOK
<1>2. /\ users' \in [UserIds -> Users \cup {Absent, Removed}]
      /\ \A v \in UserIds : users'[v] = IF v = u THEN copy ELSE users[v]
  BY <1>1
<1>3. users[u].state = "absent" /\ copy.state = "stored" /\ copy.email \in Emails
  BY DEF create, Absent, Users
<1>4. \A v \in UserIds : users[v].email # copy.email
  BY DEF create, findByEmail
<1>5. KeptStore
  BY <1>2, <1>3 DEF KeptStore
<1>6. OneAccountInv'
  BY <1>2, <1>4 DEF Inv, OneAccountInv, stored
<1>7. EvidenceInv' /\ SessionsProven'
  BY <1>2 DEF Inv, EvidenceInv, SessionsProven, stored
<1>8. secrets' \in 0 .. MaxSecrets /\ uses' \in [Secrets -> 0 .. MaxUses]
  BY DEF Inv, TypeOK
<1> QED BY <1>2, <1>5, <1>6, <1>7, <1>8, StepInv

LEMMA RegisterCreateInv ==
    ASSUME AccountsAssumption, Inv, NEW r \in Requests, RegisterCreate(r)
    PROVE  Inv'
<1> DEFINE l == [Idle EXCEPT !.pc = "mail"]
<1>1. req[r].copy \in Users /\ ~Evidence(req[r].copy)
  BY DEF RegisterCreate, Inv, LocalOK
<1>2. l \in Local
  BY IdleOK DEF Local
<1>3. l.pc = "mail" /\ l.then = "done"
  BY DEF Idle
<1>4. req' = [req EXCEPT ![r] = l]
  BY DEF RegisterCreate
<1> HIDE DEF l
<1>5. LocalOK(l, users', proven')
  BY <1>3 DEF LocalOK, writing, SessionSteps
<1>6. PICK u \in UserIds : create(u, req[r].copy)
  BY DEF RegisterCreate
<1>7. UNCHANGED <<lapsed, secrets, uses, sessions>> /\ proven' = proven
  BY DEF RegisterCreate
<1> QED BY <1>1, <1>2, <1>4, <1>5, <1>6, <1>7, Unchanged, CreateInv

LEMMA VerifyEmailInv ==
    ASSUME AccountsAssumption, Inv, NEW r \in Requests, VerifyEmail(r)
    PROVE  Inv'
<1>0. PICK s \in Secrets : \E u \in findBySecret("verify", s) :
        /\ goWriteBy(r, u, verifyEmail(users[u]), "done", {s})
        /\ proven' = proven \cup {u}
  BY DEF VerifyEmail
<1>1. PICK u \in findBySecret("verify", s) :
        /\ goWriteBy(r, u, verifyEmail(users[u]), "done", {s})
        /\ proven' = proven \cup {u}
  BY <1>0
<1>2. u \in UserIds /\ stored(u) /\ users[u] \in Users
  BY StoredType DEF findBySecret, Inv
<1>3. Rewrites(verifyEmail(users[u]), users[u])
  BY <1>1, <1>2, Methods
<1>4. proven \subseteq proven' /\ proven' \subseteq UserIds /\ u \in proven'
  BY <1>1, <1>2, Unchanged
<1>5. UNCHANGED <<users, lapsed, uses, sessions>> /\ secrets' \in 0 .. MaxSecrets
  BY Unchanged DEF VerifyEmail
<1>6. "done" \in Thens /\ {s} \in SUBSET Secrets
  BY DEF Thens
<1>7. \E accepted \in SUBSET Secrets :
        goWriteBy(r, u, verifyEmail(users[u]), "done", accepted)
  BY <1>1, <1>6
<1> QED BY <1>2, <1>3, <1>4, <1>5, <1>6, <1>7, GoWriteInv

LEMMA ResetPasswordInv ==
    ASSUME AccountsAssumption, Inv, NEW r \in Requests, ResetPassword(r)
    PROVE  Inv'
<1>0. PICK s \in Secrets : \E u \in findBySecret("reset", s) :
        goWriteBy(r, u, setPasswordHash(users[u]), "done", {s})
  BY DEF ResetPassword
<1>1. PICK u \in findBySecret("reset", s) :
        goWriteBy(r, u, setPasswordHash(users[u]), "done", {s})
  BY <1>0
<1>2. u \in UserIds /\ stored(u) /\ users[u] \in Users
  BY StoredType DEF findBySecret, Inv
<1>3. others /\ secrets' \in 0 .. MaxSecrets
  BY Unchanged DEF ResetPassword
<1>4. "done" \in Thens \ SessionSteps
  BY DEF Thens, SessionSteps
<1>5. \E accepted \in SUBSET Secrets :
        goWriteBy(r, u, setPasswordHash(users[u]), "done", accepted)
  BY <1>1
<1>6. /\ Rewrites(setPasswordHash(users[u]), users[u])
      /\ NothingNew(setPasswordHash(users[u]), users[u])
  BY <1>1, <1>2, Methods
<1> QED BY <1>2, <1>3, <1>4, <1>5, <1>6, GoWriteSame

\* The session, or the challenge, of a user whose address was proved.
LEMMA SignInAsInv ==
    ASSUME AccountsAssumption, Inv, NEW r \in Requests, NEW u \in proven, stored(u),
           signInAs(r, u), others
    PROVE  Inv'
<1>1. u \in UserIds /\ users[u] \in Users
  BY StoredType, Unchanged DEF Inv
<1>2. CASE draw(1) /\ goWrite(r, u, setTwoFactorChallenge(users[u], fresh), "done")
  <2>1. secrets' \in 0 .. MaxSecrets /\ fresh \in Secrets
    BY <1>2, DrawType DEF Inv
  <2>2. Rewrites(setTwoFactorChallenge(users[u], fresh), users[u])
    BY <1>1, <2>1, Methods
  <2>3. "done" \in Thens
    BY DEF Thens
  <2> QED BY <1>2, <2>1, <2>2, <2>3, GoWriteKnown
<1>3. CASE goWrite(r, u, users[u], "session") /\ UNCHANGED secrets
  <2>1. Rewrites(users[u], users[u]) /\ secrets' \in 0 .. MaxSecrets
    BY <1>1, <1>3, Unchanged DEF Rewrites
  <2>2. "session" \in Thens
    BY DEF Thens
  <2> QED BY <1>3, <2>1, <2>2, GoWriteKnown
<1> QED BY <1>2, <1>3 DEF signInAs

LEMMA SignInInv ==
    ASSUME AccountsAssumption, Inv, NEW r \in Requests, SignIn(r)
    PROVE  Inv'
<1>1. PICK u \in UserIds : stored(u) /\ users[u].verified /\ signInAs(r, u)
  BY DEF SignIn
<1>2. u \in proven
  BY <1>1, EvidenceKnown DEF Evidence
<1> QED BY <1>1, <1>2, SignInAsInv DEF SignIn

LEMMA BuildAuthResponseInv ==
    ASSUME AccountsAssumption, Inv, NEW r \in Requests, buildAuthResponse(r)
    PROVE  Inv'
<1>1. req[r].id \in proven
  BY DEF buildAuthResponse, Inv, LocalOK, SessionSteps
<1> QED BY <1>1, SignInAsInv DEF buildAuthResponse

LEMMA GoogleAuthFindInv ==
    ASSUME AccountsAssumption, Inv, NEW r \in Requests, GoogleAuthFind(r)
    PROVE  Inv'
<1>1. UNCHANGED <<users, lapsed, uses, sessions>> /\ proven' = proven
      /\ secrets' \in 0 .. MaxSecrets
  BY Unchanged DEF GoogleAuthFind, others
<1>2. PICK e \in Emails :
        \/ \E u \in findByGoogleId(e) :
            req' = [req EXCEPT ![r] = [Idle EXCEPT !.pc = "google:find", !.id = u]]
        \/ req' = [req EXCEPT ![r] = [Idle EXCEPT !.pc = "google:email",
                                            !.copy = registerFromGoogle(e)]]
  BY DEF GoogleAuthFind
<1>3. ASSUME NEW u \in findByGoogleId(e),
             req' = [req EXCEPT ![r] = [Idle EXCEPT !.pc = "google:find", !.id = u]]
      PROVE  Inv'
  <2> DEFINE l == [Idle EXCEPT !.pc = "google:find", !.id = u]
  <2>1. u \in UserIds /\ stored(u) /\ users[u].google
    BY FoundStored DEF findByGoogleId, Inv
  <2>2. u \in proven
    BY <2>1, EvidenceKnown DEF Evidence
  <2>3. l \in Local
    BY <2>1, IdleOK DEF Local
  <2>4. l.pc = "google:find" /\ l.id = u /\ req' = [req EXCEPT ![r] = l]
    BY <1>3 DEF Idle
  <2> HIDE DEF l
  <2>5. LocalOK(l, users, proven')
    BY <1>1, <2>2, <2>4 DEF LocalOK, writing, SessionSteps
  <2> QED BY <1>1, <2>3, <2>4, <2>5, Unchanged, MoveInv
<1>4. CASE req' = [req EXCEPT ![r] = [Idle EXCEPT !.pc = "google:email",
                                            !.copy = registerFromGoogle(e)]]
  <2> DEFINE l == [Idle EXCEPT !.pc = "google:email", !.copy = registerFromGoogle(e)]
  <2>1. registerFromGoogle(e) \in Users
    BY DEF registerFromGoogle, register, Users
  <2>2. l \in Local
    BY <2>1, IdleOK DEF Local
  <2>3. l.pc = "google:email" /\ l.copy = registerFromGoogle(e) /\ req' = [req EXCEPT ![r] = l]
    BY <1>4 DEF Idle
  <2> HIDE DEF l
  <2>4. LocalOK(l, users, proven')
    BY <2>1, <2>3 DEF LocalOK, writing, SessionSteps
  <2> QED BY <1>1, <2>2, <2>3, <2>4, Unchanged, MoveInv
<1> QED BY <1>2, <1>3, <1>4

LEMMA GoogleAuthFindByEmailInv ==
    ASSUME AccountsAssumption, Inv, NEW r \in Requests, GoogleAuthFindByEmail(r)
    PROVE  Inv'
<1>1. UNCHANGED <<users, lapsed, uses, sessions>> /\ secrets' \in 0 .. MaxSecrets
  BY Unchanged DEF GoogleAuthFindByEmail
<1>2. req[r].pc = "google:email" /\ req[r].copy \in Users /\ req[r] \in Local
  BY DEF GoogleAuthFindByEmail, Inv, LocalOK, TypeOK
<1>3. req[r].copy.email \in Emails
  BY <1>2 DEF Users
<1>4. ASSUME NEW u \in findByEmail(req[r].copy.email), proven' = proven \cup {u},
             goWrite(r, u, IF users[u].verified
                             THEN linkGoogleAccount(users[u])
                             ELSE mergeUnverifiedWithGoogle(users[u]), "google:find")
      PROVE  Inv'
  <2> DEFINE copy == IF users[u].verified THEN linkGoogleAccount(users[u])
                     ELSE mergeUnverifiedWithGoogle(users[u])
  <2>1. u \in UserIds /\ stored(u) /\ users[u] \in Users
    BY <1>3, FoundStored DEF Inv
  <2>2. /\ Rewrites(linkGoogleAccount(users[u]), users[u])
        /\ Rewrites(mergeUnverifiedWithGoogle(users[u]), users[u])
    BY <2>1 DEF Rewrites, linkGoogleAccount, mergeUnverifiedWithGoogle, Users
  <2>3. Rewrites(copy, users[u]) /\ goWrite(r, u, copy, "google:find")
    BY <1>4, <2>2
  <2>4. proven \subseteq proven' /\ proven' \subseteq UserIds /\ u \in proven'
    BY <1>4, <2>1, Unchanged
  <2>5. "google:find" \in Thens
    BY DEF Thens
  <2> HIDE DEF copy
  <2> QED BY <1>1, <2>1, <2>3, <2>4, <2>5, GoWriteInv
<1>5. CASE req' = [req EXCEPT ![r].pc = "google:create"] /\ UNCHANGED proven
  <2> DEFINE l == [req[r] EXCEPT !.pc = "google:create"]
  <2>1. l \in Local /\ l.pc = "google:create" /\ l.copy = req[r].copy
    BY <1>2 DEF Local
  <2>2. req' = [req EXCEPT ![r] = l]
    BY <1>5
  <2> HIDE DEF l
  <2>3. LocalOK(l, users, proven')
    BY <1>2, <2>1 DEF LocalOK, writing, SessionSteps
  <2> QED BY <1>1, <1>5, <2>1, <2>2, <2>3, Unchanged, MoveInv
<1> QED BY <1>4, <1>5 DEF GoogleAuthFindByEmail

LEMMA GoogleAuthCreateInv ==
    ASSUME AccountsAssumption, Inv, NEW r \in Requests, GoogleAuthCreate(r)
    PROVE  Inv'
<1>1. PICK u \in UserIds :
        /\ create(u, req[r].copy)
        /\ req' = [req EXCEPT ![r] = [Idle EXCEPT !.pc = "google:find", !.id = u]]
        /\ proven' = proven \cup {u}
  BY DEF GoogleAuthCreate
<1> DEFINE l == [Idle EXCEPT !.pc = "google:find", !.id = u]
<1>2. req[r].copy \in Users
  BY DEF GoogleAuthCreate, Inv, LocalOK
<1>3. proven \subseteq proven' /\ proven' \subseteq UserIds /\ u \in proven'
  BY <1>1, Unchanged
<1>4. l \in Local
  BY IdleOK DEF Local
<1>5. l.pc = "google:find" /\ l.id = u /\ req' = [req EXCEPT ![r] = l]
  BY <1>1 DEF Idle
<1> HIDE DEF l
<1>6. LocalOK(l, users', proven')
  BY <1>3, <1>5 DEF LocalOK, writing, SessionSteps
<1>7. UNCHANGED <<lapsed, secrets, uses, sessions>>
  BY DEF GoogleAuthCreate
<1> QED BY <1>1, <1>2, <1>3, <1>4, <1>5, <1>6, <1>7, CreateInv

LEMMA VerifyTwoFactorInv ==
    ASSUME AccountsAssumption, Inv, NEW r \in Requests, VerifyTwoFactor(r)
    PROVE  Inv'
<1>1. PICK s \in Secrets : \E u \in findBySecret("challenge", s) :
        \/ goWriteBy(r, u, clearTwoFactorChallenge(users[u]), "session", {s})
        \/ \E c \in users[u].codes :
            goWriteBy(r, u, consumeRecoveryCode(clearTwoFactorChallenge(users[u]), c),
                      "session", {s, c})
  BY DEF VerifyTwoFactor
<1>2. PICK u \in findBySecret("challenge", s) :
        \/ goWriteBy(r, u, clearTwoFactorChallenge(users[u]), "session", {s})
        \/ \E c \in users[u].codes :
            goWriteBy(r, u, consumeRecoveryCode(clearTwoFactorChallenge(users[u]), c),
                      "session", {s, c})
  BY <1>1
<1>3. u \in UserIds /\ stored(u) /\ users[u] \in Users /\ users[u].challenge # NoSecret
  BY StoredType DEF findBySecret, Inv
<1>4. u \in proven
  BY <1>3, EvidenceKnown DEF Evidence
<1>5. others /\ secrets' \in 0 .. MaxSecrets
  BY Unchanged DEF VerifyTwoFactor
<1>6. "session" \in Thens
  BY DEF Thens
<1>7. CASE goWriteBy(r, u, clearTwoFactorChallenge(users[u]), "session", {s})
  <2>1. Rewrites(clearTwoFactorChallenge(users[u]), users[u])
    BY <1>3, Methods
  <2>2. {s} \in SUBSET Secrets
    OBVIOUS
  <2> QED BY <1>3, <1>4, <1>5, <1>6, <1>7, <2>1, <2>2, GoWriteKnown
<1>8. ASSUME NEW c \in users[u].codes,
             goWriteBy(r, u, consumeRecoveryCode(clearTwoFactorChallenge(users[u]), c),
                       "session", {s, c})
      PROVE  Inv'
  <2>1. Rewrites(consumeRecoveryCode(clearTwoFactorChallenge(users[u]), c), users[u])
    BY <1>3, Codes
  <2>2. {s, c} \in SUBSET Secrets
    BY <1>3 DEF Users
  <2> QED BY <1>3, <1>4, <1>5, <1>6, <1>8, <2>1, <2>2, GoWriteKnown
<1> QED BY <1>2, <1>7, <1>8

LEMMA VerifyInv ==
    ASSUME AccountsAssumption, Inv, NEW r \in Requests, Verify(r)
    PROVE  Inv'
<1>1. PICK u \in sessions :
        req' = [req EXCEPT ![r] = [Idle EXCEPT !.pc = "verified", !.id = u]]
  BY DEF Verify
<1> DEFINE l == [Idle EXCEPT !.pc = "verified", !.id = u]
<1>2. u \in UserIds /\ u \in proven
  BY DEF Inv, TypeOK, SessionsProven
<1>3. l \in Local
  BY <1>2, IdleOK DEF Local
<1>4. l.pc = "verified" /\ l.id = u /\ req' = [req EXCEPT ![r] = l]
  BY <1>1 DEF Idle
<1> HIDE DEF l
<1>5. UNCHANGED <<users, lapsed, uses, sessions>> /\ proven' = proven
      /\ secrets' \in 0 .. MaxSecrets
  BY Unchanged DEF Verify, others
<1>6. LocalOK(l, users, proven')
  BY <1>2, <1>4, <1>5 DEF LocalOK, writing, SessionSteps
<1> QED BY <1>3, <1>4, <1>5, <1>6, Unchanged, MoveInv

\* The handlers of a signed-in user write a copy of the account they act for.
LEMMA VerifiedInv ==
    ASSUME AccountsAssumption, Inv, NEW r \in Requests,
           \/ AcceptCgu(r) \/ SetupTwoFactor(r) \/ ConfirmTwoFactor(r)
           \/ DisableTwoFactor(r) \/ UpdateUser(r)
    PROVE  Inv'
<1> DEFINE u == req[r].id
<1>1. u \in proven /\ stored(u) /\ me(r) = users[u]
  BY DEF AcceptCgu, SetupTwoFactor, ConfirmTwoFactor, DisableTwoFactor, UpdateUser,
         verified, me, Inv, LocalOK
<1>2. u \in UserIds /\ users[u] \in Users
  BY <1>1, StoredType, Unchanged DEF Inv
<1>3. others /\ secrets' \in 0 .. MaxSecrets
  <2>1. CASE ConfirmTwoFactor(r)
    BY <2>1, DrawType DEF ConfirmTwoFactor, Inv
  <2>2. CASE ~ConfirmTwoFactor(r)
    BY <2>2, Unchanged DEF AcceptCgu, SetupTwoFactor, DisableTwoFactor, UpdateUser
  <2> QED BY <2>1, <2>2
<1>4. {"done", "reload"} \subseteq Thens
  BY DEF Thens
<1>5. /\ Rewrites(users[u], users[u])
      /\ Rewrites(startTotpSetup(users[u]), users[u])
      /\ Rewrites(disableTotp(users[u]), users[u])
  <2> HIDE DEF u
  <2>1. Rewrites(users[u], users[u])
    BY <1>2 DEF Rewrites
  <2>2. Rewrites(startTotpSetup(users[u]), users[u])
    BY <1>2 DEF Rewrites, startTotpSetup, Users
  <2>3. Rewrites(disableTotp(users[u]), users[u])
    BY <1>2 DEF Rewrites, disableTotp, Users
  <2> QED BY <2>1, <2>2, <2>3
<1>6. CASE AcceptCgu(r)
  BY <1>1, <1>3, <1>4, <1>5, <1>6, GoWriteKnown DEF AcceptCgu
<1>7. CASE SetupTwoFactor(r)
  BY <1>1, <1>3, <1>4, <1>5, <1>7, GoWriteKnown DEF SetupTwoFactor
<1>8. CASE ConfirmTwoFactor(r)
  <2>1. {fresh, fresh + 1} \in SUBSET Secrets
    BY <1>8, DrawType DEF ConfirmTwoFactor, Inv
  <2>2. Rewrites(confirmTotp(users[u], {fresh, fresh + 1}), users[u])
    BY <1>2, <2>1, Codes
  <2> QED BY <1>1, <1>3, <1>4, <1>8, <2>2, GoWriteKnown DEF ConfirmTwoFactor
<1>9. CASE DisableTwoFactor(r)
  <2>1. PICK c \in {{}} \cup {{code} : code \in users[u].codes} :
          goWriteBy(r, u, disableTotp(users[u]), "done", c)
    BY <1>1, <1>9 DEF DisableTwoFactor
  <2>2. c \in SUBSET Secrets
    BY <1>2 DEF Users
  <2> QED BY <1>1, <1>3, <1>4, <1>5, <2>1, <2>2, GoWriteKnown
<1>10. CASE UpdateUser(r)
  <2>1. PICK then \in {"done", "reload"} : goWriteBy(r, u, users[u], then, {})
    BY <1>1, <1>10 DEF UpdateUser
  <2>2. {} \in SUBSET Secrets /\ then \in Thens
    BY <1>4
  <2> QED BY <1>1, <1>3, <1>5, <2>1, <2>2, GoWriteKnown
<1> QED BY <1>6, <1>7, <1>8, <1>9, <1>10

LEMMA DeleteAccountFindInv ==
    ASSUME AccountsAssumption, Inv, NEW r \in Requests, DeleteAccountFind(r)
    PROVE  Inv'
<1> DEFINE l == [req[r] EXCEPT !.pc = "account:delete"]
<1>1. req[r] \in Local /\ req[r].id \in proven
  BY DEF DeleteAccountFind, verified, Inv, TypeOK, LocalOK
<1>2. l \in Local /\ l.pc = "account:delete" /\ l.id = req[r].id
  BY <1>1 DEF Local
<1>3. req' = [req EXCEPT ![r] = l]
  BY DEF DeleteAccountFind
<1> HIDE DEF l
<1>4. UNCHANGED <<users, lapsed, uses, sessions>> /\ proven' = proven
      /\ secrets' \in 0 .. MaxSecrets
  BY Unchanged DEF DeleteAccountFind, others
<1>5. LocalOK(l, users, proven')
  BY <1>1, <1>2, <1>4 DEF LocalOK, writing, SessionSteps
<1> QED BY <1>2, <1>3, <1>4, <1>5, Unchanged, MoveInv

LEMMA DeleteAccountUserInv ==
    ASSUME AccountsAssumption, Inv, NEW r \in Requests, DeleteAccountUser(r)
    PROVE  Inv'
<1>1. users' = [users EXCEPT ![req[r].id] = Removed]
      /\ users \in [UserIds -> Users \cup {Absent, Removed}]
      /\ UNCHANGED <<lapsed, secrets, uses, sessions, proven>> /\ finish(r)
  BY DEF DeleteAccountUser, Inv, TypeOK
<1>2. /\ users' \in [UserIds -> Users \cup {Absent, Removed}]
      /\ \A v \in UserIds : users'[v] = IF v = req[r].id THEN Removed ELSE users[v]
  BY <1>1
<1>3. Removed.state = "removed"
  BY DEF Removed
<1>4. KeptStore
  BY <1>2, <1>3 DEF KeptStore
<1>5. OneAccountInv' /\ EvidenceInv' /\ SessionsProven'
  BY <1>1, <1>2, <1>3 DEF Inv, OneAccountInv, EvidenceInv, SessionsProven, stored
<1>6. secrets' \in 0 .. MaxSecrets /\ uses' \in [Secrets -> 0 .. MaxUses]
  BY <1>1 DEF Inv, TypeOK
<1> QED BY <1>1, <1>2, <1>4, <1>5, <1>6, IdleOK, Unchanged, StepInv DEF finish

LEMMA ModerateInv ==
    ASSUME AccountsAssumption, Inv, NEW r \in Requests, Moderate(r)
    PROVE  Inv'
<1>1. others /\ secrets' \in 0 .. MaxSecrets
  BY Unchanged DEF Moderate, BanAdminUser, UnbanAdminUser, SoftDeleteAdminUser,
         RestoreAdminUser
<1>2. PICK u \in UserIds :
        /\ stored(u)
        /\ \/ \E kind \in {"temporary", "permanent"} :
                goWrite(r, u, ban(users[u], kind), "moderated")
           \/ goWrite(r, u, unban(users[u]), "moderated")
           \/ goWrite(r, u, softDelete(users[u]), "moderated")
           \/ goWrite(r, u, restore(users[u]), "moderated")
  BY DEF Moderate, BanAdminUser, UnbanAdminUser, SoftDeleteAdminUser, RestoreAdminUser
<1>3. users[u] \in Users /\ "moderated" \in Thens \ SessionSteps
  BY <1>2, StoredType DEF Inv, Thens, SessionSteps
<1>4. PICK copy : /\ Rewrites(copy, users[u]) /\ NothingNew(copy, users[u])
                  /\ goWrite(r, u, copy, "moderated")
  BY <1>2, <1>3, Decisions
<1> QED BY <1>1, <1>2, <1>3, <1>4, GoWriteSame

\* The copy a handler writes back has the address of the document, and what it
\* tells of the owner is proved; a link to Google that was there stays.
LEMMA UpdateInv ==
    ASSUME AccountsAssumption, Inv, NEW r \in Requests, req[r].pc = "write",
           update(req[r].id, req[r].copy), UNCHANGED <<lapsed, secrets, sessions, proven>>
    PROVE  /\ users' \in [UserIds -> Users \cup {Absent, Removed}]
           /\ KeptStore /\ OneAccountInv' /\ EvidenceInv'
           /\ users'[req[r].id].state # "absent"
           /\ users'[req[r].id].state = "stored" => users'[req[r].id].email = req[r].copy.email
<1> DEFINE u == req[r].id
           copy == req[r].copy
           new == toAuthPersistence(copy, users[u])
<1>1. /\ u \in UserIds /\ copy \in Users /\ users[u].state # "absent"
      /\ stored(u) => users[u].email = copy.email
      /\ Evidence(copy) => u \in proven
  BY DEF Inv, LocalOK, writing, stored
<1>2. users \in [UserIds -> Users \cup {Absent, Removed}]
  BY DEF Inv, TypeOK
<1>3. CASE ~stored(u)
  <2>1. users' = users
    BY <1>3 DEF update
  <2> QED BY <1>1, <1>2, <1>3, <2>1 DEF Inv, KeptStore, OneAccountInv, EvidenceInv, stored
<1>4. CASE stored(u)
  <2>1. users[u] \in Users
    BY <1>1, <1>4, StoredType DEF Inv
  <2>2. /\ new \in Users /\ new.email = copy.email /\ new.state = "stored"
        /\ Evidence(new) => Evidence(copy) \/ Evidence(users[u])
    <3> HIDE DEF u, copy
    <3> QED BY <1>1, <2>1 DEF toAuthPersistence, Users, Evidence
  <2>3. users' = [users EXCEPT ![u] = new]
    BY <1>4 DEF update
  <2> HIDE DEF new
  <2>4. /\ users' \in [UserIds -> Users \cup {Absent, Removed}]
        /\ \A v \in UserIds : users'[v] = IF v = u THEN new ELSE users[v]
    BY <1>1, <1>2, <2>2, <2>3
  <2>5. users[u].email = new.email /\ users[u].state = "stored"
    BY <1>1, <1>4, <2>2 DEF stored
  <2>6. KeptStore
    BY <2>2, <2>4, <2>5 DEF KeptStore
  <2>7. OneAccountInv'
    BY <1>1, <2>4, <2>5 DEF Inv, OneAccountInv, stored
  <2>8. Evidence(new) => u \in proven
    BY <1>1, <1>4, <2>2, EvidenceKnown
  <2>9. EvidenceInv'
    BY <1>1, <2>4, <2>5, <2>8 DEF Inv, EvidenceInv, stored
  <2> QED BY <1>1, <2>2, <2>4, <2>6, <2>7, <2>9
<1> QED BY <1>3, <1>4

LEMMA WriteInv ==
    ASSUME AccountsAssumption, Inv, NEW r \in Requests, Write(r)
    PROVE  Inv'
<1> DEFINE id == req[r].id
           then == req[r].then
           l == CASE then \in {"done", "moderated"} -> Idle
                  [] then = "mail" -> [Idle EXCEPT !.pc = "mail"]
                  [] then = "reset mail" -> [req[r] EXCEPT !.pc = "mail"]
                  [] OTHER -> [Idle EXCEPT !.pc = then, !.id = id, !.factor = req[r].factor]
<1>1. /\ req[r].pc = "write" /\ update(id, req[r].copy)
      /\ UNCHANGED <<lapsed, secrets, sessions, proven>>
      /\ req' = [req EXCEPT ![r] = l]
  BY DEF Write
<1>2. /\ users' \in [UserIds -> Users \cup {Absent, Removed}]
      /\ KeptStore /\ OneAccountInv' /\ EvidenceInv'
      /\ users'[id].state # "absent"
      /\ users'[id].state = "stored" => users'[id].email = req[r].copy.email
  BY <1>1, UpdateInv
<1>3. uses' \in [Secrets -> 0 .. MaxUses]
  <2>1. uses \in [Secrets -> 0 .. MaxUses]
    BY DEF Inv, TypeOK
  <2>2. ASSUME NEW s \in Secrets
        PROVE (IF s \in req[r].accepted /\ uses[s] < MaxUses THEN uses[s] + 1 ELSE uses[s])
                \in 0 .. MaxUses
    BY <2>1 DEF MaxUses
  <2> QED BY <2>2 DEF Write
<1>4. /\ req[r] \in Local /\ id \in UserIds /\ req[r].copy \in Users
      /\ Evidence(req[r].copy) => id \in proven
      /\ then \in SessionSteps => id \in proven
  BY <1>1 DEF Inv, TypeOK, LocalOK, writing
<1>5. l \in Local /\ LocalOK(l, users', proven)
  <2>1. CASE then \in {"done", "moderated"}
    BY <2>1, IdleOK
  <2>2. CASE then = "mail"
    <3> DEFINE m == [Idle EXCEPT !.pc = "mail"]
    <3>1. l = m
      BY <2>2
    <3>2. m \in Local
      BY IdleOK DEF Local
    <3>3. m.pc = "mail" /\ m.then = "done"
      BY DEF Idle
    <3> HIDE DEF m, l
    <3>4. LocalOK(m, users', proven)
      BY <3>3 DEF LocalOK, writing, SessionSteps
    <3> QED BY <3>1, <3>2, <3>4
  <2>3. CASE then = "reset mail"
    <3> DEFINE m == [req[r] EXCEPT !.pc = "mail"]
    <3>1. l = m
      BY <2>3
    <3>2. /\ m \in Local /\ m.pc = "mail" /\ m.then = "reset mail"
          /\ m.id = id /\ m.copy = req[r].copy
      BY <1>4, <2>3 DEF Local
    <3> HIDE DEF m, l
    <3>3. LocalOK(m, users', proven)
      BY <1>2, <1>4, <3>2 DEF LocalOK, writing, SessionSteps
    <3> QED BY <3>1, <3>2, <3>3
  <2>4. CASE then \in SessionSteps
    <3> DEFINE m == [Idle EXCEPT !.pc = then, !.id = id, !.factor = req[r].factor]
    <3>1. l = m
      BY <2>4 DEF SessionSteps
    <3>2. req[r].factor \in BOOLEAN
      BY <1>4 DEF Local
    <3>3. m \in Local
      BY <1>4, <2>4, <3>2, IdleOK DEF Local, SessionSteps
    <3>4. m.pc \in SessionSteps /\ m.id = id
      BY <2>4 DEF Idle
    <3> HIDE DEF m, l
    <3>5. LocalOK(m, users', proven)
      BY <1>4, <2>4, <3>4 DEF LocalOK, writing, SessionSteps
    <3> QED BY <3>1, <3>3, <3>5
  <2>5. then \in {"done", "moderated", "mail", "reset mail"} \cup SessionSteps
    BY <1>4 DEF Local, SessionSteps
  <2> QED BY <2>1, <2>2, <2>3, <2>4, <2>5
<1> HIDE DEF l
<1>6. SessionsProven' /\ secrets' \in 0 .. MaxSecrets
  BY <1>1, Unchanged DEF Inv, SessionsProven
<1> QED BY <1>1, <1>2, <1>3, <1>5, <1>6, Unchanged, StepInv

\* The copy the link is taken from again is the one the handler has just written.
LEMMA MailInv ==
    ASSUME AccountsAssumption, Inv, NEW r \in Requests, Mail(r)
    PROVE  Inv'
<1>1. UNCHANGED <<users, lapsed, secrets, uses, sessions, proven>>
  BY DEF Mail, others
<1>2. CASE finish(r)
  BY <1>1, <1>2, FinishInv
<1>3. CASE /\ req[r].pc = "mail" /\ req[r].then = "reset mail"
           /\ goWrite(r, req[r].id, clearPasswordResetToken(req[r].copy), "done")
  <2> DEFINE copy == clearPasswordResetToken(req[r].copy)
             l == [Idle EXCEPT !.pc = "write", !.id = req[r].id, !.copy = copy, !.then = "done"]
  <2>1. writing(req[r]) /\ LocalOK(req[r], users, proven)
    BY <1>3 DEF writing, Inv
  <2>2. Rewrites(copy, req[r].copy) /\ NothingNew(copy, req[r].copy)
    BY <2>1, ClearReset DEF LocalOK
  <2> HIDE DEF copy
  <2>3. /\ req[r].id \in UserIds /\ copy \in Users
        /\ users[req[r].id].state # "absent"
        /\ users[req[r].id].state = "stored" => users[req[r].id].email = copy.email
        /\ Evidence(copy) => req[r].id \in proven
    BY <2>1, <2>2 DEF LocalOK, Rewrites, NothingNew
  <2>4. l \in Local
    BY <2>3, IdleOK DEF Local
  <2>5. l.pc = "write" /\ l.id = req[r].id /\ l.copy = copy /\ l.then = "done"
    BY DEF Idle
  <2>6. req' = [req EXCEPT ![r] = l]
    BY <1>3 DEF goWrite, copy
  <2> HIDE DEF l
  <2>7. LocalOK(l, users, proven)
    BY <2>3, <2>5 DEF LocalOK, writing, SessionSteps
  <2> QED BY <1>1, <2>4, <2>6, <2>7, Unchanged, MoveInv
<1> QED BY <1>2, <1>3 DEF Mail

LEMMA SessionInv ==
    ASSUME AccountsAssumption, Inv, NEW r \in Requests, Reload(r) \/ Session(r)
    PROVE  Inv'
<1>1. req[r].id \in proven /\ req[r] \in Local
  BY DEF Reload, Session, Inv, LocalOK, SessionSteps, TypeOK
<1>2. CASE Reload(r)
  <2> DEFINE l == [req[r] EXCEPT !.pc = "session"]
  <2>1. l \in Local /\ l.pc = "session" /\ l.id = req[r].id
    BY <1>1 DEF Local
  <2>2. req' = [req EXCEPT ![r] = l]
    BY <1>2 DEF Reload
  <2> HIDE DEF l
  <2>3. UNCHANGED <<users, lapsed, uses, sessions>> /\ proven' = proven
        /\ secrets' \in 0 .. MaxSecrets
    BY <1>2, Unchanged DEF Reload, others
  <2>4. LocalOK(l, users, proven')
    BY <1>1, <2>1, <2>3 DEF LocalOK, writing, SessionSteps
  <2> QED BY <2>1, <2>2, <2>3, <2>4, Unchanged, MoveInv
<1>3. CASE Session(r)
  <2>1. /\ sessions' = sessions \cup {req[r].id} /\ finish(r)
        /\ UNCHANGED <<users, lapsed, secrets, uses, proven>>
    BY <1>3 DEF Session
  <2>2. SessionsProven'
    BY <1>1, <2>1 DEF Inv, SessionsProven
  <2>3. OneAccountInv' /\ EvidenceInv' /\ KeptStore
    BY <2>1 DEF Inv, OneAccountInv, EvidenceInv, KeptStore, stored
  <2>4. /\ users' \in [UserIds -> Users \cup {Absent, Removed}]
        /\ secrets' \in 0 .. MaxSecrets /\ uses' \in [Secrets -> 0 .. MaxUses]
    BY <2>1 DEF Inv, TypeOK
  <2> QED BY <2>1, <2>2, <2>3, <2>4, IdleOK, Unchanged, StepInv DEF finish
<1> QED BY <1>2, <1>3

LEMMA UnchangedInv ==
    ASSUME Inv, lapsed' \in BOOLEAN, UNCHANGED <<users, secrets, uses, sessions, proven, req>>
    PROVE  Inv'
<1>1. TypeOK'
  BY DEF Inv, TypeOK
<1> QED BY <1>1 DEF Inv, OneAccountInv, EvidenceInv, SessionsProven, stored

LEMMA NextInv ==
    ASSUME AccountsAssumption, Inv, [Next]_vars
    PROVE  Inv'
<1>1. CASE BansLapse
  BY <1>1, UnchangedInv DEF BansLapse
<1>2. CASE UNCHANGED vars
  BY <1>2, UnchangedInv DEF vars, Inv, TypeOK
<1>3. ASSUME NEW r \in Requests, Step(r)
      PROVE  Inv'
  <2>1. CASE RegisterFind(r) \/ RegisterCreate(r) \/ ResendVerificationEmail(r)
             \/ RequestPasswordReset(r)
    BY <2>1, RegisterFindInv, RegisterCreateInv, LinkInv
  <2>2. CASE VerifyEmail(r) \/ ResetPassword(r) \/ SignIn(r) \/ VerifyTwoFactor(r)
    BY <2>2, VerifyEmailInv, ResetPasswordInv, SignInInv, VerifyTwoFactorInv
  <2>3. CASE GoogleAuthFind(r) \/ GoogleAuthFindByEmail(r) \/ GoogleAuthCreate(r)
             \/ buildAuthResponse(r)
    BY <2>3, GoogleAuthFindInv, GoogleAuthFindByEmailInv, GoogleAuthCreateInv,
       BuildAuthResponseInv
  <2>4. CASE Verify(r) \/ AcceptCgu(r) \/ SetupTwoFactor(r) \/ ConfirmTwoFactor(r)
             \/ DisableTwoFactor(r) \/ UpdateUser(r)
    BY <2>4, VerifyInv, VerifiedInv
  <2>5. CASE DeleteAccountFind(r) \/ DeleteAccountUser(r) \/ Moderate(r)
    BY <2>5, DeleteAccountFindInv, DeleteAccountUserInv, ModerateInv
  <2>6. CASE Write(r) \/ Mail(r) \/ Reload(r) \/ Session(r)
    BY <2>6, WriteInv, MailInv, SessionInv
  <2>7. CASE RequestFail(r)
    BY <2>7, FinishInv DEF RequestFail, others
  <2> QED BY <1>3, <2>1, <2>2, <2>3, <2>4, <2>5, <2>6, <2>7 DEF Step
<1> QED BY <1>1, <1>2, <1>3 DEF Next

-----------------------------------------------------------------------------
(* The theorems                                                            *)

\* Whatever requests overlap, every document, copy and counter has its type: no
\* copy written back brings a removed document back in part.
THEOREM AccountTypes ==
    ASSUME AccountsAssumption PROVE Spec => []TypeOK
<1>1. Init => Inv
  BY InitInv
<1>2. Inv /\ [Next]_vars => Inv'
  BY NextInv
<1>3. Inv => TypeOK
  BY DEF Inv
<1> QED BY <1>1, <1>2, <1>3, PTL DEF Spec

\* However many registrations and Google sign-ins overlap, an address has one
\* account: the index refuses the second (User.schema.ts:79), and no copy written
\* back has another address than its document (User.mapper.ts:144).
THEOREM OneAccount ==
    ASSUME AccountsAssumption PROVE Spec => []OneAccountPerEmail
<1>1. Init => Inv
  BY InitInv
<1>2. Inv /\ [Next]_vars => Inv'
  BY NextInv
<1>3. Inv => OneAccountPerEmail
  <2> SUFFICES ASSUME Inv, NEW e \in Emails
               PROVE  Cardinality(findByEmail(e)) <= 1
    BY DEF OneAccountPerEmail
  <2>1. \A u, v \in findByEmail(e) : u = v
    BY FoundStored DEF Inv, OneAccountInv, findByEmail
  <2>2. CASE findByEmail(e) = {}
    BY <2>2, FS_EmptySet
  <2>3. CASE findByEmail(e) # {}
    <3>1. PICK u : findByEmail(e) = {u}
      BY <2>1, <2>3
    <3>2. Cardinality({u}) = 1
      BY FS_Singleton
    <3> QED BY <3>1, <3>2
  <2> QED BY <2>2, <2>3
<1> QED BY <1>1, <1>2, <1>3, PTL DEF Spec

\* Whatever stale copies are written back, nobody holds a session of an account
\* whose address was never proved by a mailed link or by Google (SignIn:48,
\* VerifyEmail:29, GoogleAuth:117).
THEOREM SessionsAreProven ==
    ASSUME AccountsAssumption PROVE Spec => []SessionsProven
<1>1. Init => Inv
  BY InitInv
<1>2. Inv /\ [Next]_vars => Inv'
  BY NextInv
<1>3. Inv => SessionsProven
  BY DEF Inv
<1> QED BY <1>1, <1>2, <1>3, PTL DEF Spec

-----------------------------------------------------------------------------
(* The requests served one at a time                                       *)
(*                                                                         *)
(* A secret is in one place at most, as long as it has not been accepted:  *)
(* one field of one account.  The copy a handler is about to write has only *)
(* secrets of its account, without those the request was let in by, and the *)
(* decisions of the administrators that the document has now.              *)

\* The secrets a user could still present.
held(user) == ({user.verify, user.reset, user.challenge} \cup user.codes) \ {NoSecret}

\* No secret is good for two things.
Separate(user) ==
    /\ {user.verify} \cap ({user.reset, user.challenge} \cup user.codes) \subseteq {NoSecret}
    /\ {user.reset} \cap ({user.challenge} \cup user.codes) \subseteq {NoSecret}
    /\ user.challenge \notin user.codes

\* The secret was drawn, is good for one use, and no account but u has it.
Owned(s, u) ==
    /\ s <= secrets /\ uses[s] = 0
    /\ \A v \in UserIds \ {u} : stored(v) => s \notin held(users[v])

SameDecision(user, other) == user.ban = other.ban /\ user.deleted = other.deleted

InGoodStanding(user, factor) == canAuthenticate(user) /\ (user.totp = "on" => factor)

SecretsInv ==
    /\ \A s \in Secrets : uses[s] <= 1 /\ (s > secrets => uses[s] = 0)
    /\ \A u \in UserIds : stored(u) =>
            Separate(users[u]) /\ \A s \in held(users[u]) : Owned(s, u)

CreatePcs == {"register:create", "google:email", "google:create"}

\* What a handler that runs alone relies on when it resumes.
AloneOK(l) ==
    /\ l.pc \in CreatePcs => Separate(l.copy) /\ \A s \in held(l.copy) : Owned(s, None)
    /\ writing(l) =>
        /\ stored(l.id) /\ Separate(l.copy)
        /\ \A s \in held(l.copy) : Owned(s, l.id)
        /\ l.then # "moderated" => SameDecision(l.copy, users[l.id])
    /\ l.pc = "write" =>
        /\ \A s \in l.accepted : Owned(s, l.id) /\ s \notin held(l.copy)
        /\ l.then \in {"reload", "session"} => InGoodStanding(l.copy, l.factor)
    /\ l.pc \in {"reload", "session"} =>
            stored(l.id) /\ InGoodStanding(users[l.id], l.factor)
    /\ l.pc = "verified" => stored(l.id) /\ canAuthenticate(users[l.id])

AloneInv == SecretsInv /\ \A r \in Requests : AloneOK(req[r])

(* What the methods of the entity make of the secrets of a copy             *)

\* The copy has no secrets but those of the user and the ones drawn, and lost
\* those that were accepted, which were secrets of the user.
Keeps(copy, user, drawn, accepted) ==
    /\ Separate(copy) /\ accepted \subseteq held(user)
    /\ held(copy) \subseteq (held(user) \ accepted) \cup drawn

LEMMA HeldType ==
    ASSUME NEW user \in Users
    PROVE  held(user) \subseteq Secrets /\ held(user) \subseteq Nat
BY DEF held, Users, Secrets

LEMMA LinkSecrets ==
    ASSUME NEW user \in Users, Separate(user), NEW s \in Secrets, s \notin held(user)
    PROVE  /\ Keeps(setEmailVerificationToken(user, s), user, {s}, {})
           /\ Keeps(setPasswordResetToken(user, s), user, {s}, {})
           /\ Keeps(setTwoFactorChallenge(user, s), user, {s}, {})
<1> USE SecretType DEF Keeps, held, Separate, Users
<1>1. Keeps(setEmailVerificationToken(user, s), user, {s}, {})
  BY DEF setEmailVerificationToken
<1>2. Keeps(setPasswordResetToken(user, s), user, {s}, {})
  BY DEF setPasswordResetToken
<1>3. Keeps(setTwoFactorChallenge(user, s), user, {s}, {})
  BY DEF setTwoFactorChallenge
<1> QED BY <1>1, <1>2, <1>3

LEMMA UseSecrets ==
    ASSUME NEW user \in Users, Separate(user)
    PROVE  /\ user.verify # NoSecret => Keeps(verifyEmail(user), user, {}, {user.verify})
           /\ user.reset # NoSecret => Keeps(setPasswordHash(user), user, {}, {user.reset})
           /\ user.challenge # NoSecret =>
                /\ Keeps(clearTwoFactorChallenge(user), user, {}, {user.challenge})
                /\ \A c \in user.codes :
                    Keeps(consumeRecoveryCode(clearTwoFactorChallenge(user), c), user, {},
                          {user.challenge, c})
<1> USE SecretType DEF Keeps, held, Separate, Users
<1>1. user.verify # NoSecret => Keeps(verifyEmail(user), user, {}, {user.verify})
  BY DEF verifyEmail
<1>2. user.reset # NoSecret => Keeps(setPasswordHash(user), user, {}, {user.reset})
  BY DEF setPasswordHash
<1>3. user.challenge # NoSecret =>
        Keeps(clearTwoFactorChallenge(user), user, {}, {user.challenge})
  BY DEF clearTwoFactorChallenge
<1>4. ASSUME user.challenge # NoSecret, NEW c \in user.codes
      PROVE  Keeps(consumeRecoveryCode(clearTwoFactorChallenge(user), c), user, {},
                   {user.challenge, c})
  BY <1>4 DEF clearTwoFactorChallenge, consumeRecoveryCode
<1> QED BY <1>1, <1>2, <1>3, <1>4

LEMMA OtherSecrets ==
    ASSUME NEW user \in Users, Separate(user)
    PROVE  /\ Keeps(user, user, {}, {})
           /\ Keeps(linkGoogleAccount(user), user, {}, {})
           /\ Keeps(mergeUnverifiedWithGoogle(user), user, {}, {})
           /\ Keeps(startTotpSetup(user), user, {}, {})
           /\ \A c \in SUBSET user.codes : Keeps(disableTotp(user), user, {}, c)
<1> USE SecretType DEF Keeps, held, Separate, Users
<1>1. Keeps(user, user, {}, {}) /\ Keeps(linkGoogleAccount(user), user, {}, {})
  BY DEF linkGoogleAccount
<1>2. Keeps(mergeUnverifiedWithGoogle(user), user, {}, {})
  BY DEF mergeUnverifiedWithGoogle
<1>3. Keeps(startTotpSetup(user), user, {}, {})
  BY DEF startTotpSetup
<1>4. \A c \in SUBSET user.codes : Keeps(disableTotp(user), user, {}, c)
  BY DEF disableTotp
<1> QED BY <1>1, <1>2, <1>3, <1>4

LEMMA CodeSecrets ==
    ASSUME NEW user \in Users, Separate(user), NEW codes \in SUBSET Secrets,
           codes \cap held(user) = {}
    PROVE  Keeps(confirmTotp(user, codes), user, codes, {})
BY SecretType DEF Keeps, held, Separate, Users, confirmTotp

LEMMA DecisionSecrets ==
    ASSUME NEW user \in Users, Separate(user)
    PROVE  /\ \A kind \in {"temporary", "permanent"} : Keeps(ban(user, kind), user, {}, {})
           /\ Keeps(unban(user), user, {}, {})
           /\ Keeps(softDelete(user), user, {}, {})
           /\ Keeps(restore(user), user, {}, {})
BY DEF Keeps, held, Separate, Users, ban, unban, softDelete, restore

LEMMA ClearResetSecrets ==
    ASSUME NEW user \in Users, Separate(user)
    PROVE  /\ Separate(clearPasswordResetToken(user))
           /\ held(clearPasswordResetToken(user)) \subseteq held(user)
           /\ SameDecision(clearPasswordResetToken(user), user)
BY SecretType DEF held, Separate, SameDecision, Users, clearPasswordResetToken

\* Only the administrators' methods change what the administrators decide.
LEMMA SameDecisions ==
    ASSUME NEW user \in Users
    PROVE  /\ \A s \in Secrets :
                /\ SameDecision(setEmailVerificationToken(user, s), user)
                /\ SameDecision(setPasswordResetToken(user, s), user)
                /\ SameDecision(setTwoFactorChallenge(user, s), user)
           /\ SameDecision(user, user)
           /\ SameDecision(verifyEmail(user), user)
           /\ SameDecision(setPasswordHash(user), user)
           /\ SameDecision(linkGoogleAccount(user), user)
           /\ SameDecision(mergeUnverifiedWithGoogle(user), user)
           /\ SameDecision(clearTwoFactorChallenge(user), user)
           /\ \A c : SameDecision(consumeRecoveryCode(clearTwoFactorChallenge(user), c), user)
           /\ SameDecision(startTotpSetup(user), user)
           /\ \A codes : SameDecision(confirmTotp(user, codes), user)
           /\ SameDecision(disableTotp(user), user)
<1> USE DEF SameDecision, Users
<1>1. \A s \in Secrets :
        /\ SameDecision(setEmailVerificationToken(user, s), user)
        /\ SameDecision(setPasswordResetToken(user, s), user)
        /\ SameDecision(setTwoFactorChallenge(user, s), user)
  BY DEF setEmailVerificationToken, setPasswordResetToken, setTwoFactorChallenge
<1>2. /\ SameDecision(user, user) /\ SameDecision(verifyEmail(user), user)
      /\ SameDecision(setPasswordHash(user), user)
      /\ SameDecision(linkGoogleAccount(user), user)
      /\ SameDecision(mergeUnverifiedWithGoogle(user), user)
  BY DEF verifyEmail, setPasswordHash, linkGoogleAccount, mergeUnverifiedWithGoogle
<1>3. /\ SameDecision(clearTwoFactorChallenge(user), user)
      /\ \A c : SameDecision(consumeRecoveryCode(clearTwoFactorChallenge(user), c), user)
  BY DEF clearTwoFactorChallenge, consumeRecoveryCode
<1>4. /\ SameDecision(startTotpSetup(user), user) /\ SameDecision(disableTotp(user), user)
      /\ \A codes : SameDecision(confirmTotp(user, codes), user)
  BY DEF startTotpSetup, disableTotp, confirmTotp
<1> QED BY <1>1, <1>2, <1>3, <1>4

-----------------------------------------------------------------------------
(* A handler that runs alone                                               *)

LEMMA InitAlone == ASSUME AccountsAssumption, Init PROVE AloneInv
<1>1. /\ \A u \in UserIds : ~stored(u)
      /\ \A s \in Secrets : uses[s] = 0
  BY DEF Init, stored, Absent
<1>2. AloneOK(Idle)
  BY DEF AloneOK, CreatePcs, writing, Idle
<1>3. \A r \in Requests : req[r] = Idle
  BY DEF Init
<1>4. SecretsInv
  BY <1>1 DEF SecretsInv
<1> QED BY <1>2, <1>3, <1>4 DEF AloneInv

\* What a handler that runs alone may rely on when it resumes.
LEMMA Resumes ==
    ASSUME AccountsAssumption, Inv, AloneInv, NEW r, Requests = {r}
    PROVE  /\ req[r] \in Local /\ LocalOK(req[r], users, proven) /\ AloneOK(req[r])
           /\ req \in [Requests -> Local] /\ SecretsInv
           /\ users \in [UserIds -> Users \cup {Absent, Removed}]
           /\ uses \in [Secrets -> 0 .. MaxUses]
           /\ secrets \in Nat /\ None \notin UserIds
BY DEF Inv, TypeOK, AloneInv, AccountsAssumption

LEMMA StoredSecrets ==
    ASSUME AccountsAssumption, Inv, SecretsInv, NEW u \in UserIds, stored(u)
    PROVE  /\ users[u] \in Users /\ Separate(users[u])
           /\ held(users[u]) \subseteq Secrets /\ held(users[u]) \subseteq Nat
           /\ \A s \in held(users[u]) : Owned(s, u)
BY StoredType, HeldType DEF Inv, SecretsInv

\* Drawing takes no secret from anyone, and what is drawn is nobody's.
LEMMA Drawing ==
    ASSUME AccountsAssumption, Inv, AloneInv, UNCHANGED <<users, uses>>,
           secrets' \in Nat, secrets <= secrets'
    PROVE  /\ SecretsInv'
           /\ \A s \in Nat : \A u : Owned(s, u) => Owned(s, u)'
           /\ \A s \in Secrets : \A u : secrets < s /\ s <= secrets' => Owned(s, u)'
<1>1. secrets \in Nat /\ Secrets \subseteq Nat
  BY DEF Inv, TypeOK, Secrets
<1>2. \A s \in Nat : \A u : Owned(s, u) => Owned(s, u)'
  BY <1>1 DEF Owned, stored
<1>3. \A s \in Secrets : \A u : secrets < s /\ s <= secrets' => Owned(s, u)'
  <2> SUFFICES ASSUME NEW s \in Secrets, NEW u, secrets < s, s <= secrets'
               PROVE  Owned(s, u)'
    OBVIOUS
  <2>1. uses[s] = 0
    BY <1>1 DEF AloneInv, SecretsInv
  <2>2. ASSUME NEW v \in UserIds, stored(v) PROVE s \notin held(users[v])
    BY <1>1, <2>2 DEF AloneInv, SecretsInv, Owned
  <2> QED BY <2>1, <2>2 DEF Owned, stored
<1>4. SecretsInv'
  <2>1. \A s \in Secrets : uses'[s] <= 1 /\ (s > secrets' => uses'[s] = 0)
    BY <1>1 DEF AloneInv, SecretsInv
  <2>2. ASSUME NEW u \in UserIds, stored(u)
        PROVE  Separate(users[u]) /\ \A s \in held(users[u]) : Owned(s, u)'
    BY <1>2, <2>2, StoredSecrets DEF AloneInv
  <2> QED BY <2>1, <2>2 DEF SecretsInv, stored
<1> QED BY <1>2, <1>3, <1>4

\* The request is between two operations and relies on nothing.
QuietPc(l) ==
    l.pc \notin CreatePcs \cup {"write", "reload", "session", "verified"} /\ ~writing(l)

LEMMA QuietOK ==
    ASSUME NEW r, Requests = {r}, SecretsInv', QuietPc(req'[r])
    PROVE  AloneInv'
BY DEF AloneInv, AloneOK, QuietPc

LEMMA IdleQuiet == QuietPc(Idle)
BY DEF QuietPc, CreatePcs, writing, Idle

LEMMA QuietAlone ==
    ASSUME AccountsAssumption, Inv, AloneInv, NEW r, Requests = {r},
           UNCHANGED <<users, uses, secrets>>, QuietPc(req'[r])
    PROVE  AloneInv'
BY Resumes, Drawing, QuietOK

\* The request sets out to write a copy that is good to write.
LEMMA WillWriteAlone ==
    ASSUME AccountsAssumption, Inv, AloneInv, NEW r, Requests = {r},
           UNCHANGED <<users, uses, lapsed>>, secrets' \in Nat, secrets <= secrets',
           NEW u \in UserIds, stored(u),
           NEW copy \in Users, Separate(copy),
           \A s \in held(copy) : Owned(s, u) \/ (secrets < s /\ s <= secrets'),
           NEW accepted \in SUBSET Secrets,
           \A s \in accepted : Owned(s, u) /\ s \notin held(copy),
           NEW then, then # "moderated" => SameDecision(copy, users[u]),
           NEW factor, then \in {"reload", "session"} => InGoodStanding(copy, factor),
           req'[r].pc = "write", req'[r].id = u, req'[r].copy = copy,
           req'[r].then = then, req'[r].accepted = accepted, req'[r].factor = factor
    PROVE  AloneInv'
<1>1. SecretsInv'
  BY Drawing
<1>2. ASSUME NEW s \in held(copy) PROVE Owned(s, u)'
  <2>1. s \in Secrets /\ s \in Nat
    BY HeldType
  <2> QED BY <2>1, Drawing
<1>3. ASSUME NEW s \in accepted PROVE Owned(s, u)'
  BY Drawing DEF Secrets
<1>4. writing(req[r])' => stored(u)'
  BY DEF stored
<1>5. AloneOK(req[r])'
  BY <1>2, <1>3, <1>4 DEF AloneOK, CreatePcs, SameDecision, InGoodStanding,
                          canAuthenticate, isBanActive
<1> QED BY <1>1, <1>5 DEF AloneInv

\* The same when the copy is made from the document just read.
LEMMA FromDocument ==
    ASSUME AccountsAssumption, Inv, AloneInv, NEW r, Requests = {r},
           UNCHANGED <<users, uses, lapsed>>, secrets' \in Nat, secrets <= secrets',
           NEW u \in UserIds, stored(u), NEW copy \in Users, NEW drawn, NEW accepted,
           Keeps(copy, users[u], drawn, accepted),
           \A s \in drawn : secrets < s /\ s <= secrets',
           NEW then, then # "moderated" => SameDecision(copy, users[u]),
           NEW factor, then \in {"reload", "session"} => InGoodStanding(copy, factor),
           req'[r].pc = "write", req'[r].id = u, req'[r].copy = copy,
           req'[r].then = then, req'[r].accepted = accepted, req'[r].factor = factor
    PROVE  AloneInv'
<1>1. /\ held(users[u]) \subseteq Secrets /\ held(users[u]) \subseteq Nat
      /\ \A s \in held(users[u]) : Owned(s, u)
  BY StoredSecrets DEF AloneInv
<1>2. accepted \in SUBSET Secrets /\ \A s \in accepted : Owned(s, u)
  BY <1>1 DEF Keeps
<1>3. \A s \in accepted : s \notin drawn
  BY <1>1, <1>2, Resumes DEF Keeps, Owned
<1>4. \A s \in accepted : s \notin held(copy)
  BY <1>3 DEF Keeps
<1>5. \A s \in held(copy) : Owned(s, u) \/ (secrets < s /\ s <= secrets')
  BY <1>1 DEF Keeps
<1> QED BY <1>2, <1>4, <1>5, WillWriteAlone DEF Keeps

LEMMA GoWriteFields ==
    ASSUME AccountsAssumption, Inv, NEW r \in Requests, NEW u, NEW copy, NEW then,
           goWrite(r, u, copy, then)
    PROVE  /\ req'[r].pc = "write" /\ req'[r].id = u /\ req'[r].copy = copy
           /\ req'[r].then = then /\ req'[r].accepted = {} /\ req'[r].factor = FALSE
BY DEF goWrite, Idle, Inv, TypeOK

LEMMA GoWriteByFields ==
    ASSUME AccountsAssumption, Inv, NEW r \in Requests, NEW u, NEW copy, NEW then,
           NEW accepted, goWriteBy(r, u, copy, then, accepted)
    PROVE  /\ req'[r].pc = "write" /\ req'[r].id = u /\ req'[r].copy = copy
           /\ req'[r].then = then /\ req'[r].accepted = accepted /\ req'[r].factor = TRUE
BY DEF goWriteBy, Idle, Inv, TypeOK

LEMMA FreshSecrets ==
    ASSUME TypeOK, NEW n \in {1, 2}, draw(n)
    PROVE  /\ secrets' \in Nat /\ secrets <= secrets'
           /\ secrets < fresh /\ fresh <= secrets'
           /\ n = 2 => fresh + 1 <= secrets' /\ secrets < fresh + 1
BY DEF TypeOK, draw, fresh

\* A handler that draws one secret and has it written.
LEMMA DrawAlone ==
    ASSUME AccountsAssumption, Inv, AloneInv, NEW r, Requests = {r},
           others, draw(1), NEW u \in UserIds, stored(u), NEW copy \in Users,
           Keeps(copy, users[u], {fresh}, {}), SameDecision(copy, users[u]),
           NEW then \in {"done", "mail", "reset mail"}, goWrite(r, u, copy, then)
    PROVE  AloneInv'
<1>1. secrets' \in Nat /\ secrets <= secrets' /\ secrets < fresh /\ fresh <= secrets'
  BY FreshSecrets DEF Inv
<1>2. r \in Requests
  OBVIOUS
<1>3. UNCHANGED <<users, uses, lapsed>>
  BY DEF others
<1>4. /\ req'[r].pc = "write" /\ req'[r].id = u /\ req'[r].copy = copy
      /\ req'[r].then = then /\ req'[r].accepted = {} /\ req'[r].factor = FALSE
  BY <1>2, GoWriteFields
<1> QED BY <1>1, <1>3, <1>4, FromDocument

\* A drawn secret is not among those of a user.
LEMMA FreshSecret ==
    ASSUME AccountsAssumption, Inv, AloneInv, NEW u \in UserIds, stored(u),
           NEW n \in {1, 2}, draw(n)
    PROVE  /\ fresh \in Secrets /\ fresh \notin held(users[u])
           /\ n = 2 => fresh + 1 \in Secrets /\ fresh + 1 \notin held(users[u])
<1>1. fresh \in Secrets /\ (n = 2 => {fresh, fresh + 1} \in SUBSET Secrets)
  BY DrawType DEF Inv
<1>2. \A s \in held(users[u]) : s \in Nat /\ s <= secrets
  BY StoredSecrets DEF AloneInv, Owned
<1>3. secrets \in Nat
  BY DEF Inv, TypeOK
<1> QED BY <1>1, <1>2, <1>3 DEF fresh

LEMMA StoredAlone ==
    ASSUME AccountsAssumption, Inv, AloneInv, NEW u \in UserIds, stored(u)
    PROVE  users[u] \in Users /\ Separate(users[u])
BY StoredSecrets DEF AloneInv

LEMMA RegisterFindAlone ==
    ASSUME AccountsAssumption, Inv, AloneInv, NEW r, Requests = {r}, RegisterFind(r)
    PROVE  AloneInv'
<1>1. /\ others /\ draw(1) /\ r \in Requests /\ fresh \in Secrets
      /\ req \in [Requests -> Local]
  BY DrawType DEF RegisterFind, Inv, TypeOK
<1>2. PICK e \in Emails :
        \/ req' = [req EXCEPT ![r] = [Idle EXCEPT !.pc = "register:create",
                            !.copy = register(e, fresh)]]
        \/ \E u \in findByEmail(e) :
           goWrite(r, u, setEmailVerificationToken(users[u], fresh), "mail")
  BY DEF RegisterFind
<1>3. CASE req' = [req EXCEPT ![r] = [Idle EXCEPT !.pc = "register:create",
                            !.copy = register(e, fresh)]]
  <2>1. PICK token \in Secrets : token = fresh
    BY <1>1
  <2>2. req'[r].pc = "register:create" /\ req'[r].copy = register(e, token)
    BY <1>1, <1>3, <2>1 DEF Idle
  <2>3. held(register(e, token)) = {token} /\ Separate(register(e, token))
    BY SecretType DEF register, held, Separate
  <2>4. UNCHANGED <<users, uses>> /\ secrets' \in Nat /\ secrets <= secrets'
        /\ secrets < token /\ token <= secrets'
    BY <1>1, <2>1, FreshSecrets DEF Inv, others
  <2>5. Owned(token, None)' /\ SecretsInv'
    BY <2>4, Drawing
  <2>6. AloneOK(req[r])'
    BY <2>2, <2>3, <2>5 DEF AloneOK, CreatePcs, writing
  <2> QED BY <2>5, <2>6 DEF AloneInv
<1>4. ASSUME NEW u \in findByEmail(e),
             goWrite(r, u, setEmailVerificationToken(users[u], fresh), "mail")
      PROVE  AloneInv'
  <2>1. u \in UserIds /\ stored(u) /\ users[u] \in Users /\ Separate(users[u])
    BY FoundStored, StoredAlone DEF Inv
  <2>2. fresh \notin held(users[u])
    BY <1>1, <2>1, FreshSecret
  <2>3. /\ Keeps(setEmailVerificationToken(users[u], fresh), users[u], {fresh}, {})
        /\ SameDecision(setEmailVerificationToken(users[u], fresh), users[u])
        /\ setEmailVerificationToken(users[u], fresh) \in Users
    BY <1>1, <2>1, <2>2, LinkSecrets, SameDecisions, Methods DEF Rewrites
  <2> QED BY <1>1, <1>4, <2>1, <2>3, DrawAlone
<1> QED BY <1>2, <1>3, <1>4

LEMMA LinkAlone ==
    ASSUME AccountsAssumption, Inv, AloneInv, NEW r, Requests = {r},
           ResendVerificationEmail(r) \/ RequestPasswordReset(r)
    PROVE  AloneInv'
<1>1. others /\ draw(1) /\ fresh \in Secrets
  BY DrawType DEF ResendVerificationEmail, RequestPasswordReset, Inv
<1>2. PICK e \in Emails : \E u \in findByEmail(e) :
        \/ goWrite(r, u, setEmailVerificationToken(users[u], fresh), "mail")
        \/ goWrite(r, u, setPasswordResetToken(users[u], fresh), "reset mail")
  BY DEF ResendVerificationEmail, RequestPasswordReset
<1>3. PICK u \in findByEmail(e) :
        \/ goWrite(r, u, setEmailVerificationToken(users[u], fresh), "mail")
        \/ goWrite(r, u, setPasswordResetToken(users[u], fresh), "reset mail")
  BY <1>2
<1>4. u \in UserIds /\ stored(u) /\ users[u] \in Users /\ Separate(users[u])
  BY FoundStored, StoredAlone DEF Inv
<1>5. fresh \notin held(users[u])
  BY <1>1, <1>4, FreshSecret
<1>6. /\ Keeps(setEmailVerificationToken(users[u], fresh), users[u], {fresh}, {})
      /\ SameDecision(setEmailVerificationToken(users[u], fresh), users[u])
      /\ setEmailVerificationToken(users[u], fresh) \in Users
      /\ Keeps(setPasswordResetToken(users[u], fresh), users[u], {fresh}, {})
      /\ SameDecision(setPasswordResetToken(users[u], fresh), users[u])
      /\ setPasswordResetToken(users[u], fresh) \in Users
  BY <1>1, <1>4, <1>5, LinkSecrets, SameDecisions, Methods DEF Rewrites
<1> QED BY <1>1, <1>3, <1>4, <1>6, DrawAlone

\* The secrets a request presents are those of the account it found by them.
LEMMA PresentAlone ==
    ASSUME AccountsAssumption, Inv, AloneInv, NEW r, Requests = {r},
           UNCHANGED <<users, uses, lapsed, secrets>>,
           NEW u \in UserIds, stored(u), NEW copy \in Users, NEW accepted,
           Keeps(copy, users[u], {}, accepted), SameDecision(copy, users[u]),
           NEW then, then \in {"reload", "session"} => InGoodStanding(copy, TRUE),
           goWriteBy(r, u, copy, then, accepted)
    PROVE  AloneInv'
<1>1. secrets' \in Nat /\ secrets <= secrets'
  BY Resumes
<1>2. /\ req'[r].pc = "write" /\ req'[r].id = u /\ req'[r].copy = copy
      /\ req'[r].then = then /\ req'[r].accepted = accepted /\ req'[r].factor = TRUE
  <2>1. r \in Requests
    OBVIOUS
  <2> QED BY <2>1, GoWriteByFields
<1>3. PICK factor : factor = TRUE
  OBVIOUS
<1>4. req'[r].factor = factor
      /\ (then \in {"reload", "session"} => InGoodStanding(copy, factor))
  BY <1>2, <1>3, Zenon
<1>5. /\ req'[r].pc = "write" /\ req'[r].id = u /\ req'[r].copy = copy
      /\ req'[r].then = then /\ req'[r].accepted = accepted
  BY <1>2, Zenon
<1> QED BY <1>1, <1>4, <1>5, FromDocument

\* A handler that presents nothing and draws nothing.
LEMMA PlainAlone ==
    ASSUME AccountsAssumption, Inv, AloneInv, NEW r, Requests = {r},
           UNCHANGED <<users, uses, lapsed, secrets>>,
           NEW u \in UserIds, stored(u), NEW copy \in Users,
           Keeps(copy, users[u], {}, {}),
           NEW then, then # "moderated" => SameDecision(copy, users[u]),
           then \in {"reload", "session"} => InGoodStanding(copy, FALSE),
           goWrite(r, u, copy, then)
    PROVE  AloneInv'
<1>1. secrets' \in Nat /\ secrets <= secrets'
  BY Resumes
<1>2. /\ req'[r].pc = "write" /\ req'[r].id = u /\ req'[r].copy = copy
      /\ req'[r].then = then /\ req'[r].accepted = {} /\ req'[r].factor = FALSE
  <2>1. r \in Requests
    OBVIOUS
  <2> QED BY <2>1, GoWriteFields
<1> QED BY <1>1, <1>2, FromDocument

LEMMA VerifyEmailAlone ==
    ASSUME AccountsAssumption, Inv, AloneInv, NEW r, Requests = {r},
           VerifyEmail(r) \/ ResetPassword(r)
    PROVE  AloneInv'
<1>1. UNCHANGED <<users, uses, lapsed, secrets>>
  BY DEF VerifyEmail, ResetPassword, others
<1>2. CASE VerifyEmail(r)
  <2>1. PICK s \in Secrets : \E u \in findBySecret("verify", s) :
            goWriteBy(r, u, verifyEmail(users[u]), "done", {s})
    BY <1>2 DEF VerifyEmail
  <2>2. PICK u \in findBySecret("verify", s) :
            goWriteBy(r, u, verifyEmail(users[u]), "done", {s})
    BY <2>1
  <2>3. u \in UserIds /\ stored(u) /\ users[u].verify = s /\ s # NoSecret
    BY DEF findBySecret
  <2>4. users[u] \in Users /\ Separate(users[u])
    BY <2>3, StoredAlone
  <2>5. /\ Keeps(verifyEmail(users[u]), users[u], {}, {s})
        /\ SameDecision(verifyEmail(users[u]), users[u]) /\ verifyEmail(users[u]) \in Users
    BY <2>3, <2>4, UseSecrets, SameDecisions, Methods DEF Rewrites
  <2> QED BY <1>1, <2>2, <2>3, <2>5, PresentAlone
<1>3. CASE ResetPassword(r)
  <2>1. PICK s \in Secrets : \E u \in findBySecret("reset", s) :
            goWriteBy(r, u, setPasswordHash(users[u]), "done", {s})
    BY <1>3 DEF ResetPassword
  <2>2. PICK u \in findBySecret("reset", s) :
            goWriteBy(r, u, setPasswordHash(users[u]), "done", {s})
    BY <2>1
  <2>3. u \in UserIds /\ stored(u) /\ users[u].reset = s /\ s # NoSecret
    BY DEF findBySecret
  <2>4. users[u] \in Users /\ Separate(users[u])
    BY <2>3, StoredAlone
  <2>5. /\ Keeps(setPasswordHash(users[u]), users[u], {}, {s})
        /\ SameDecision(setPasswordHash(users[u]), users[u])
        /\ setPasswordHash(users[u]) \in Users
    BY <2>3, <2>4, UseSecrets, SameDecisions, Methods DEF Rewrites
  <2> QED BY <1>1, <2>2, <2>3, <2>5, PresentAlone
<1> QED BY <1>2, <1>3

LEMMA SignInAlone ==
    ASSUME AccountsAssumption, Inv, AloneInv, NEW r, Requests = {r},
           SignIn(r) \/ buildAuthResponse(r)
    PROVE  AloneInv'
<1>1. PICK u \in UserIds : stored(u) /\ canAuthenticate(users[u]) /\ signInAs(r, u)
  BY Unchanged DEF SignIn, buildAuthResponse, Inv, LocalOK, SessionSteps
<1>2. others
  BY DEF SignIn, buildAuthResponse
<1>3. users[u] \in Users /\ Separate(users[u])
  BY <1>1, StoredAlone
<1>4. CASE draw(1) /\ goWrite(r, u, setTwoFactorChallenge(users[u], fresh), "done")
  <2>1. fresh \in Secrets /\ fresh \notin held(users[u])
    BY <1>1, <1>4, FreshSecret
  <2>2. /\ Keeps(setTwoFactorChallenge(users[u], fresh), users[u], {fresh}, {})
        /\ SameDecision(setTwoFactorChallenge(users[u], fresh), users[u])
        /\ setTwoFactorChallenge(users[u], fresh) \in Users
    BY <1>3, <2>1, LinkSecrets, SameDecisions, Methods DEF Rewrites
  <2> QED BY <1>1, <1>2, <1>4, <2>2, DrawAlone
<1>5. CASE users[u].totp # "on" /\ goWrite(r, u, users[u], "session") /\ UNCHANGED secrets
  <2>1. Keeps(users[u], users[u], {}, {}) /\ SameDecision(users[u], users[u])
    BY <1>3, OtherSecrets, SameDecisions
  <2>2. InGoodStanding(users[u], FALSE)
    BY <1>1, <1>5 DEF InGoodStanding
  <2> QED BY <1>1, <1>2, <1>3, <1>5, <2>1, <2>2, PlainAlone DEF others
<1> QED BY <1>1, <1>4, <1>5 DEF signInAs

LEMMA VerifyTwoFactorAlone ==
    ASSUME AccountsAssumption, Inv, AloneInv, NEW r, Requests = {r}, VerifyTwoFactor(r)
    PROVE  AloneInv'
<1>1. PICK s \in Secrets : \E u \in findBySecret("challenge", s) :
        /\ canAuthenticate(users[u])
        /\ \/ goWriteBy(r, u, clearTwoFactorChallenge(users[u]), "session", {s})
           \/ \E c \in users[u].codes :
                goWriteBy(r, u, consumeRecoveryCode(clearTwoFactorChallenge(users[u]), c),
                          "session", {s, c})
  BY DEF VerifyTwoFactor
<1>2. PICK u \in findBySecret("challenge", s) :
        /\ canAuthenticate(users[u])
        /\ \/ goWriteBy(r, u, clearTwoFactorChallenge(users[u]), "session", {s})
           \/ \E c \in users[u].codes :
                goWriteBy(r, u, consumeRecoveryCode(clearTwoFactorChallenge(users[u]), c),
                          "session", {s, c})
  BY <1>1
<1>3. u \in UserIds /\ stored(u) /\ users[u].challenge = s /\ s # NoSecret
  BY DEF findBySecret
<1>4. users[u] \in Users /\ Separate(users[u])
  BY <1>3, StoredAlone
<1>5. UNCHANGED <<users, uses, lapsed, secrets>>
  BY DEF VerifyTwoFactor, others
<1>6. ASSUME NEW copy, SameDecision(copy, users[u]) PROVE InGoodStanding(copy, TRUE)
  BY <1>2, <1>6 DEF InGoodStanding, canAuthenticate, isBanActive, SameDecision
<1>7. CASE goWriteBy(r, u, clearTwoFactorChallenge(users[u]), "session", {s})
  <2>1. /\ Keeps(clearTwoFactorChallenge(users[u]), users[u], {}, {s})
        /\ SameDecision(clearTwoFactorChallenge(users[u]), users[u])
        /\ clearTwoFactorChallenge(users[u]) \in Users
    BY <1>3, <1>4, UseSecrets, SameDecisions, Methods DEF Rewrites
  <2> QED BY <1>3, <1>5, <1>6, <1>7, <2>1, PresentAlone
<1>8. ASSUME NEW c \in users[u].codes,
             goWriteBy(r, u, consumeRecoveryCode(clearTwoFactorChallenge(users[u]), c),
                       "session", {s, c})
      PROVE  AloneInv'
  <2>1. /\ Keeps(consumeRecoveryCode(clearTwoFactorChallenge(users[u]), c), users[u], {}, {s, c})
        /\ SameDecision(consumeRecoveryCode(clearTwoFactorChallenge(users[u]), c), users[u])
        /\ consumeRecoveryCode(clearTwoFactorChallenge(users[u]), c) \in Users
    BY <1>3, <1>4, UseSecrets, SameDecisions, Codes DEF Rewrites
  <2> QED BY <1>3, <1>5, <1>6, <1>8, <2>1, PresentAlone
<1> QED BY <1>2, <1>7, <1>8

LEMMA GoogleAuthFindAlone ==
    ASSUME AccountsAssumption, Inv, AloneInv, NEW r, Requests = {r}, GoogleAuthFind(r)
    PROVE  AloneInv'
<1>1. UNCHANGED <<users, uses, secrets>> /\ r \in Requests /\ req \in [Requests -> Local]
  BY DEF GoogleAuthFind, others, Inv, TypeOK
<1>2. PICK e \in Emails :
        \/ \E u \in findByGoogleId(e) :
            req' = [req EXCEPT ![r] = [Idle EXCEPT !.pc = "google:find", !.id = u]]
        \/ req' = [req EXCEPT ![r] = [Idle EXCEPT !.pc = "google:email",
                                            !.copy = registerFromGoogle(e)]]
  BY DEF GoogleAuthFind
<1>3. ASSUME NEW u,
             req' = [req EXCEPT ![r] = [Idle EXCEPT !.pc = "google:find", !.id = u]]
      PROVE  AloneInv'
  <2>1. req'[r].pc = "google:find"
    BY <1>1, <1>3 DEF Idle
  <2>2. QuietPc(req'[r])
    BY <2>1 DEF QuietPc, CreatePcs, writing
  <2> QED BY <1>1, <2>2, QuietAlone
<1>4. CASE req' = [req EXCEPT ![r] = [Idle EXCEPT !.pc = "google:email",
                                            !.copy = registerFromGoogle(e)]]
  <2>1. req'[r].pc = "google:email" /\ req'[r].copy = registerFromGoogle(e)
    BY <1>1, <1>4 DEF Idle
  <2>2. held(registerFromGoogle(e)) = {} /\ Separate(registerFromGoogle(e))
    BY SecretType DEF registerFromGoogle, register, held, Separate
  <2>3. SecretsInv'
    BY <1>1, Resumes, Drawing
  <2>4. AloneOK(req[r])'
    BY <2>1, <2>2 DEF AloneOK, CreatePcs, writing
  <2> QED BY <2>3, <2>4 DEF AloneInv
<1> QED BY <1>2, <1>3, <1>4

LEMMA GoogleAuthFindByEmailAlone ==
    ASSUME AccountsAssumption, Inv, AloneInv, NEW r, Requests = {r},
           GoogleAuthFindByEmail(r)
    PROVE  AloneInv'
<1>1. UNCHANGED <<users, uses, lapsed, secrets>>
  BY DEF GoogleAuthFindByEmail
<1>2. /\ req[r].pc = "google:email" /\ req[r] \in Local /\ AloneOK(req[r])
      /\ req \in [Requests -> Local]
  BY Resumes DEF GoogleAuthFindByEmail
<1>3. req[r].copy.email \in Emails
  BY <1>2, Resumes DEF LocalOK, Users
<1>4. ASSUME NEW u \in findByEmail(req[r].copy.email),
             goWrite(r, u, IF users[u].verified
                             THEN linkGoogleAccount(users[u])
                             ELSE mergeUnverifiedWithGoogle(users[u]), "google:find")
      PROVE  AloneInv'
  <2>1. u \in UserIds /\ stored(u) /\ users[u] \in Users /\ Separate(users[u])
    BY <1>3, FoundStored, StoredAlone DEF Inv
  <2>2. /\ Keeps(linkGoogleAccount(users[u]), users[u], {}, {})
        /\ SameDecision(linkGoogleAccount(users[u]), users[u])
        /\ linkGoogleAccount(users[u]) \in Users
    BY <2>1, OtherSecrets, SameDecisions DEF linkGoogleAccount, Users
  <2>3. /\ Keeps(mergeUnverifiedWithGoogle(users[u]), users[u], {}, {})
        /\ SameDecision(mergeUnverifiedWithGoogle(users[u]), users[u])
        /\ mergeUnverifiedWithGoogle(users[u]) \in Users
    BY <2>1, OtherSecrets, SameDecisions DEF mergeUnverifiedWithGoogle, Users
  <2>4. CASE goWrite(r, u, linkGoogleAccount(users[u]), "google:find")
    BY <1>1, <2>1, <2>2, <2>4, PlainAlone
  <2>5. CASE goWrite(r, u, mergeUnverifiedWithGoogle(users[u]), "google:find")
    BY <1>1, <2>1, <2>3, <2>5, PlainAlone
  <2> QED BY <1>4, <2>4, <2>5
<1>5. CASE req' = [req EXCEPT ![r].pc = "google:create"]
  <2>1. req'[r].pc = "google:create" /\ req'[r].copy = req[r].copy
    BY <1>2, <1>5 DEF Local
  <2>2. Separate(req[r].copy) /\ \A s \in held(req[r].copy) : Owned(s, None)
    BY <1>2 DEF AloneOK, CreatePcs
  <2>3. SecretsInv'
    BY <1>1, Resumes, Drawing
  <2>4. \A s : Owned(s, None) => Owned(s, None)'
    BY <1>1 DEF Owned, stored
  <2>5. AloneOK(req[r])'
    BY <2>1, <2>2, <2>4 DEF AloneOK, CreatePcs, writing
  <2> QED BY <2>3, <2>5 DEF AloneInv
<1> QED BY <1>4, <1>5 DEF GoogleAuthFindByEmail

\* The copy of a new account has no secret that any account has.
LEMMA CreateAlone ==
    ASSUME AccountsAssumption, Inv, AloneInv, NEW r, Requests = {r},
           RegisterCreate(r) \/ GoogleAuthCreate(r)
    PROVE  AloneInv'
<1>1. /\ req[r].pc \in CreatePcs /\ AloneOK(req[r]) /\ SecretsInv
      /\ users \in [UserIds -> Users \cup {Absent, Removed}]
      /\ None \notin UserIds /\ req \in [Requests -> Local]
  BY Resumes DEF RegisterCreate, GoogleAuthCreate, CreatePcs
<1>2. PICK u \in UserIds : create(u, req[r].copy)
  BY DEF RegisterCreate, GoogleAuthCreate
<1>3. UNCHANGED <<uses, secrets>>
  BY DEF RegisterCreate, GoogleAuthCreate
<1>4. PICK copy : copy = req[r].copy
  OBVIOUS
<1>5. /\ users[u] = Absent
      /\ \A v \in UserIds : users'[v] = IF v = u THEN copy ELSE users[v]
  BY <1>1, <1>2, <1>4 DEF create
<1>6. Separate(copy) /\ \A s \in held(copy) : Owned(s, None)
  BY <1>1, <1>4 DEF AloneOK
<1>7. ~stored(u)
  BY <1>5 DEF stored, Absent
<1>8. ASSUME NEW s \in held(copy) PROVE Owned(s, u)'
  <2>1. Owned(s, None)
    BY <1>6
  <2> QED BY <1>1, <1>3, <1>5, <2>1 DEF Owned, stored
<1>9. ASSUME NEW w \in UserIds, w # u, stored(w)
      PROVE  Separate(users[w]) /\ \A s \in held(users[w]) : Owned(s, w)'
  <2>1. Separate(users[w]) /\ \A s \in held(users[w]) : Owned(s, w)
    BY <1>1, <1>9 DEF SecretsInv
  <2>2. ASSUME NEW s \in held(users[w]) PROVE s \notin held(copy)
    BY <1>1, <1>6, <1>9, <2>2 DEF Owned
  <2> QED BY <1>3, <1>5, <2>1, <2>2 DEF Owned, stored
<1>10. SecretsInv'
  <2>1. \A s \in Secrets : uses'[s] <= 1 /\ (s > secrets' => uses'[s] = 0)
    BY <1>1, <1>3 DEF SecretsInv
  <2>2. ASSUME NEW w \in UserIds, stored(w)'
        PROVE  Separate(users'[w]) /\ \A s \in held(users'[w]) : Owned(s, w)'
    <3>1. CASE w = u
      <4>1. users'[w] = copy
        BY <1>5, <3>1
      <4> QED BY <1>6, <1>8, <3>1, <4>1
    <3>2. CASE w # u
      <4>1. users'[w] = users[w] /\ stored(w)
        BY <1>5, <2>2, <3>2 DEF stored
      <4> QED BY <1>9, <3>2, <4>1
    <3> QED BY <3>1, <3>2
  <2> QED BY <2>1, <2>2 DEF SecretsInv
<1>11. QuietPc(req'[r])
  <2>1. CASE RegisterCreate(r)
    <3>1. req'[r].pc = "mail" /\ req'[r].then = "done"
      BY <1>1, <2>1 DEF RegisterCreate, Idle
    <3> QED BY <3>1 DEF QuietPc, CreatePcs, writing
  <2>2. CASE GoogleAuthCreate(r)
    <3>1. req'[r].pc = "google:find"
      BY <1>1, <2>2 DEF GoogleAuthCreate, Idle
    <3> QED BY <3>1 DEF QuietPc, CreatePcs, writing
  <2> QED BY <2>1, <2>2
<1> QED BY <1>10, <1>11, QuietOK

LEMMA VerifyAlone ==
    ASSUME AccountsAssumption, Inv, AloneInv, NEW r, Requests = {r}, Verify(r)
    PROVE  AloneInv'
<1>1. UNCHANGED <<users, uses, secrets, lapsed>> /\ r \in Requests
      /\ req \in [Requests -> Local]
  BY DEF Verify, others, Inv, TypeOK
<1>2. PICK u \in sessions :
        /\ stored(u) /\ canAuthenticate(users[u])
        /\ req' = [req EXCEPT ![r] = [Idle EXCEPT !.pc = "verified", !.id = u]]
  BY DEF Verify
<1>3. req'[r].pc = "verified" /\ req'[r].id = u
  BY <1>1, <1>2 DEF Idle
<1>4. SecretsInv'
  BY <1>1, Resumes, Drawing
<1>5. AloneOK(req[r])'
  BY <1>1, <1>2, <1>3 DEF AloneOK, CreatePcs, writing, stored, canAuthenticate, isBanActive
<1> QED BY <1>4, <1>5 DEF AloneInv

LEMMA VerifiedAlone ==
    ASSUME AccountsAssumption, Inv, AloneInv, NEW r, Requests = {r},
           \/ AcceptCgu(r) \/ SetupTwoFactor(r) \/ ConfirmTwoFactor(r)
           \/ DisableTwoFactor(r) \/ UpdateUser(r)
    PROVE  AloneInv'
<1>1. PICK u : u = req[r].id
  OBVIOUS
<1>2. /\ req[r].pc = "verified" /\ stored(u) /\ me(r) = users[u] /\ r \in Requests
      /\ LocalOK(req[r], users, proven) /\ AloneOK(req[r])
  BY <1>1, Resumes
     DEF AcceptCgu, SetupTwoFactor, ConfirmTwoFactor, DisableTwoFactor, UpdateUser,
         verified, me
<1>3. u \in UserIds /\ canAuthenticate(users[u])
  BY <1>1, <1>2, Unchanged DEF LocalOK, SessionSteps, AloneOK
<1>4. users[u] \in Users /\ Separate(users[u])
  BY <1>2, <1>3, StoredAlone
<1>5. UNCHANGED <<users, uses, lapsed>>
  BY DEF AcceptCgu, SetupTwoFactor, ConfirmTwoFactor, DisableTwoFactor, UpdateUser, others
<1>6. /\ Keeps(users[u], users[u], {}, {}) /\ SameDecision(users[u], users[u])
      /\ Keeps(startTotpSetup(users[u]), users[u], {}, {})
      /\ SameDecision(startTotpSetup(users[u]), users[u])
      /\ SameDecision(disableTotp(users[u]), users[u])
      /\ startTotpSetup(users[u]) \in Users /\ disableTotp(users[u]) \in Users
  <2>1. startTotpSetup(users[u]) \in Users /\ disableTotp(users[u]) \in Users
    BY <1>4 DEF startTotpSetup, disableTotp, Users
  <2> QED BY <1>4, <2>1, OtherSecrets, SameDecisions
<1>7. CASE AcceptCgu(r)
  BY <1>1, <1>2, <1>3, <1>4, <1>5, <1>6, <1>7, PlainAlone DEF AcceptCgu
<1>8. CASE SetupTwoFactor(r)
  BY <1>1, <1>2, <1>3, <1>5, <1>6, <1>8, PlainAlone DEF SetupTwoFactor
<1>9. CASE ConfirmTwoFactor(r)
  <2> DEFINE drawn == {fresh, fresh + 1}
             copy == confirmTotp(users[u], drawn)
  <2>1. draw(2) /\ goWrite(r, u, copy, "done")
    BY <1>1, <1>2, <1>9 DEF ConfirmTwoFactor
  <2>2. drawn \in SUBSET Secrets /\ drawn \cap held(users[u]) = {}
    BY <1>2, <1>3, <2>1, FreshSecret
  <2>3. /\ secrets' \in Nat /\ secrets <= secrets'
        /\ \A s \in drawn : secrets < s /\ s <= secrets'
    <3>1. /\ secrets' \in Nat /\ secrets <= secrets'
          /\ secrets < fresh /\ fresh <= secrets'
          /\ fresh + 1 <= secrets' /\ secrets < fresh + 1
      BY <2>1, FreshSecrets DEF Inv
    <3> QED BY <3>1
  <2> HIDE DEF drawn
  <2>4. copy \in Users /\ Keeps(copy, users[u], drawn, {}) /\ SameDecision(copy, users[u])
    BY <1>4, <2>2, Codes, CodeSecrets, SameDecisions DEF Rewrites
  <2> HIDE DEF copy
  <2>5. /\ req'[r].pc = "write" /\ req'[r].id = u /\ req'[r].copy = copy
        /\ req'[r].then = "done" /\ req'[r].accepted = {} /\ req'[r].factor = FALSE
    BY <1>2, <2>1, GoWriteFields
  <2> QED BY <1>2, <1>3, <1>5, <2>3, <2>4, <2>5, FromDocument
<1>10. CASE DisableTwoFactor(r)
  <2>1. PICK c \in {{}} \cup {{code} : code \in users[u].codes} :
          goWriteBy(r, u, disableTotp(users[u]), "done", c)
    BY <1>1, <1>2, <1>10 DEF DisableTwoFactor
  <2>2. c \in SUBSET users[u].codes
    OBVIOUS
  <2>3. Keeps(disableTotp(users[u]), users[u], {}, c)
    BY <1>4, <2>2, OtherSecrets
  <2>4. UNCHANGED secrets
    BY <1>10 DEF DisableTwoFactor
  <2> QED BY <1>2, <1>3, <1>5, <1>6, <2>1, <2>3, <2>4, PresentAlone
<1>11. CASE UpdateUser(r)
  <2>1. PICK then \in {"done", "reload"} : goWriteBy(r, u, users[u], then, {})
    BY <1>1, <1>2, <1>11 DEF UpdateUser
  <2>2. InGoodStanding(users[u], TRUE) /\ UNCHANGED secrets
    BY <1>3, <1>11 DEF InGoodStanding, UpdateUser
  <2> QED BY <1>2, <1>3, <1>4, <1>5, <1>6, <2>1, <2>2, PresentAlone
<1> QED BY <1>7, <1>8, <1>9, <1>10, <1>11

LEMMA ModerateAlone ==
    ASSUME AccountsAssumption, Inv, AloneInv, NEW r, Requests = {r}, Moderate(r)
    PROVE  AloneInv'
<1>1. UNCHANGED <<users, uses, lapsed, secrets>>
  BY DEF Moderate, BanAdminUser, UnbanAdminUser, SoftDeleteAdminUser,
         RestoreAdminUser, others
<1>2. PICK u \in UserIds :
        /\ stored(u)
        /\ \/ \E kind \in {"temporary", "permanent"} :
                goWrite(r, u, ban(users[u], kind), "moderated")
           \/ goWrite(r, u, unban(users[u]), "moderated")
           \/ goWrite(r, u, softDelete(users[u]), "moderated")
           \/ goWrite(r, u, restore(users[u]), "moderated")
  BY DEF Moderate, BanAdminUser, UnbanAdminUser, SoftDeleteAdminUser, RestoreAdminUser
<1>3. users[u] \in Users /\ Separate(users[u])
  BY <1>2, StoredAlone
<1>4. PICK copy : /\ copy \in Users /\ Keeps(copy, users[u], {}, {})
                  /\ goWrite(r, u, copy, "moderated")
  BY <1>2, <1>3, Decisions, DecisionSecrets DEF Rewrites
<1> QED BY <1>1, <1>2, <1>4, PlainAlone

LEMMA DeleteAccountAlone ==
    ASSUME AccountsAssumption, Inv, AloneInv, NEW r, Requests = {r},
           DeleteAccountFind(r) \/ DeleteAccountUser(r)
    PROVE  AloneInv'
<1>1. CASE DeleteAccountFind(r)
  <2>1. req'[r].pc = "account:delete" /\ UNCHANGED <<users, uses, secrets>>
    BY <1>1, Resumes DEF DeleteAccountFind, others, Local
  <2>2. QuietPc(req'[r])
    BY <2>1 DEF QuietPc, CreatePcs, writing
  <2> QED BY <2>1, <2>2, QuietAlone
<1>2. CASE DeleteAccountUser(r)
  <2>1. /\ \A v \in UserIds : users'[v] = IF v = req[r].id THEN Removed ELSE users[v]
        /\ UNCHANGED <<uses, secrets>> /\ SecretsInv /\ req'[r] = Idle
    BY <1>2, Resumes DEF DeleteAccountUser, finish
  <2>2. \A v \in UserIds : stored(v)' => stored(v) /\ users'[v] = users[v]
    BY <2>1 DEF stored, Removed
  <2>3. ASSUME NEW v \in UserIds, stored(v)'
        PROVE  Separate(users'[v]) /\ \A s \in held(users'[v]) : Owned(s, v)'
    <3>1. stored(v) /\ users'[v] = users[v]
      BY <2>2, <2>3
    <3>2. Separate(users[v]) /\ \A s \in held(users[v]) : Owned(s, v)
      BY <2>1, <3>1 DEF SecretsInv
    <3> QED BY <2>1, <2>2, <3>1, <3>2 DEF Owned
  <2>4. SecretsInv'
    BY <2>1, <2>3 DEF SecretsInv
  <2> QED BY <2>1, <2>4, IdleQuiet, QuietOK
<1> QED BY <1>1, <1>2

\* The write uses the secrets the request was let in by, which no document has
\* from then on; what the document then has is what the copy had.
LEMMA WriteAlone ==
    ASSUME AccountsAssumption, Inv, AloneInv, NEW r, Requests = {r}, Write(r)
    PROVE  AloneInv'
<1>1. PICK l : l = req[r]
  OBVIOUS
<1>2. /\ l.pc = "write" /\ l \in Local /\ LocalOK(l, users, proven) /\ AloneOK(l)
      /\ SecretsInv /\ uses \in [Secrets -> 0 .. MaxUses]
      /\ users \in [UserIds -> Users \cup {Absent, Removed}]
      /\ req \in [Requests -> Local]
  BY <1>1, Resumes DEF Write
<1>3. /\ l.id \in UserIds /\ l.copy \in Users /\ stored(l.id) /\ Separate(l.copy)
      /\ \A s \in held(l.copy) : Owned(s, l.id)
      /\ l.accepted \subseteq Secrets
      /\ \A s \in l.accepted : Owned(s, l.id) /\ s \notin held(l.copy)
  BY <1>2 DEF LocalOK, AloneOK, writing, Local
<1>4. PICK new : new = toAuthPersistence(l.copy, users[l.id])
  OBVIOUS
<1>5. /\ held(new) = held(l.copy) /\ Separate(new) /\ new.state = "stored"
      /\ SameDecision(new, l.copy) /\ new.totp = l.copy.totp
  BY <1>3, <1>4 DEF toAuthPersistence, Users, held, Separate, SameDecision
<1>6. /\ \A v \in UserIds : users'[v] = IF v = l.id THEN new ELSE users[v]
      /\ UNCHANGED <<lapsed, secrets>>
      /\ \A s \in Secrets : uses'[s] = IF s \in l.accepted THEN 1 ELSE uses[s]
  <2>1. users' = [users EXCEPT ![l.id] = new]
    BY <1>1, <1>3, <1>4 DEF Write, update
  <2>2. ASSUME NEW s \in Secrets
        PROVE  uses'[s] = IF s \in l.accepted THEN 1 ELSE uses[s]
    <3>1. uses'[s] = IF s \in l.accepted /\ uses[s] < MaxUses THEN uses[s] + 1 ELSE uses[s]
      BY <1>1, <2>2 DEF Write
    <3>2. CASE s \in l.accepted
      <4>1. uses[s] = 0
        BY <1>3, <3>2 DEF Owned
      <4>2. uses[s] < MaxUses /\ uses[s] + 1 = 1
        BY <4>1 DEF MaxUses
      <4> QED BY <3>1, <3>2, <4>2
    <3>3. CASE s \notin l.accepted
      BY <3>1, <3>3
    <3> QED BY <3>2, <3>3
  <2> QED BY <1>2, <2>1, <2>2 DEF Write
<1>7. ASSUME NEW s \in Secrets, NEW v \in UserIds, Owned(s, v), s \notin l.accepted,
             v = l.id \/ s \notin held(new)
      PROVE  Owned(s, v)'
  BY <1>6, <1>7 DEF Owned, stored
<1>8. \A s \in held(new) : s \in Secrets /\ Owned(s, l.id)'
  BY <1>3, <1>5, <1>7, HeldType
<1>9. SecretsInv'
  <2>1. \A s \in Secrets : uses'[s] <= 1 /\ (s > secrets' => uses'[s] = 0)
    <3> SUFFICES ASSUME NEW s \in Secrets
                 PROVE  uses'[s] <= 1 /\ (s > secrets => uses'[s] = 0)
      BY <1>6
    <3>1. CASE s \in l.accepted
      <4>1. s <= secrets /\ s \in Nat /\ secrets \in Nat
        BY <1>3, <3>1, Resumes DEF Owned, Secrets
      <4> QED BY <1>6, <3>1, <4>1
    <3>2. CASE s \notin l.accepted
      BY <1>2, <1>6, <3>2 DEF SecretsInv
    <3> QED BY <3>1, <3>2
  <2>2. ASSUME NEW w \in UserIds, stored(w)'
        PROVE  Separate(users'[w]) /\ \A s \in held(users'[w]) : Owned(s, w)'
    <3>1. CASE w = l.id
      <4>1. users'[w] = new
        BY <1>6, <3>1
      <4> QED BY <1>5, <1>8, <3>1, <4>1
    <3>2. CASE w # l.id
      <4>1. users'[w] = users[w] /\ stored(w)
        BY <1>6, <2>2, <3>2 DEF stored
      <4>2. /\ Separate(users[w]) /\ held(users[w]) \subseteq Secrets
            /\ \A s \in held(users[w]) : Owned(s, w)
        BY <1>2, <4>1, StoredSecrets
      <4>3. \A s \in held(users[w]) : s \notin l.accepted /\ s \notin held(new)
        BY <1>3, <1>5, <3>2, <4>1 DEF Owned
      <4> QED BY <1>7, <4>1, <4>2, <4>3
    <3> QED BY <3>1, <3>2
  <2> QED BY <2>1, <2>2 DEF SecretsInv
<1>10. stored(l.id)' /\ users'[l.id] = new
  BY <1>3, <1>5, <1>6 DEF stored
<1>11. r \in Requests
  OBVIOUS
<1>12. CASE l.then \in {"done", "moderated"}
  <2>1. req'[r] = Idle
    BY <1>1, <1>2, <1>12 DEF Write
  <2> QED BY <1>9, <2>1, IdleQuiet, QuietOK
<1>13. CASE l.then = "mail"
  <2>1. req'[r].pc = "mail" /\ req'[r].then = "done"
    BY <1>1, <1>2, <1>13 DEF Write, Idle
  <2>2. QuietPc(req'[r])
    BY <2>1 DEF QuietPc, CreatePcs, writing
  <2> QED BY <1>9, <2>2, QuietOK
<1>14. CASE l.then = "reset mail"
  <2>1. /\ req'[r].pc = "mail" /\ req'[r].then = "reset mail"
        /\ req'[r].id = l.id /\ req'[r].copy = l.copy
    BY <1>1, <1>2, <1>14 DEF Write, Local
  <2>2. SameDecision(l.copy, new)
    BY <1>5 DEF SameDecision
  <2>3. AloneOK(req[r])'
    BY <1>3, <1>5, <1>8, <1>10, <2>1, <2>2 DEF AloneOK, CreatePcs, writing
  <2> QED BY <1>9, <2>3 DEF AloneInv
<1>15. CASE l.then = "google:find"
  <2>1. req'[r].pc = "google:find"
    BY <1>1, <1>2, <1>15 DEF Write, Idle
  <2>2. QuietPc(req'[r])
    BY <2>1 DEF QuietPc, CreatePcs, writing
  <2> QED BY <1>9, <2>2, QuietOK
<1>16. CASE l.then \in {"reload", "session"}
  <2>1. req'[r].pc = l.then /\ req'[r].id = l.id /\ req'[r].factor = l.factor
    BY <1>1, <1>2, <1>16 DEF Write, Idle
  <2>2. InGoodStanding(l.copy, l.factor)
    BY <1>2, <1>16 DEF AloneOK
  <2>3. InGoodStanding(new, l.factor)'
    BY <1>5, <1>6, <2>2 DEF InGoodStanding, canAuthenticate, isBanActive, SameDecision
  <2>4. AloneOK(req[r])'
    BY <1>10, <1>16, <2>1, <2>3 DEF AloneOK, CreatePcs, writing
  <2> QED BY <1>9, <2>4 DEF AloneInv
<1> QED BY <1>2, <1>12, <1>13, <1>14, <1>15, <1>16 DEF Local

LEMMA KeptSecrets ==
    ASSUME Inv, UNCHANGED secrets
    PROVE  secrets' \in Nat /\ secrets <= secrets'
<1>1. secrets \in Nat
  BY DEF Inv, TypeOK
<1> QED BY <1>1

LEMMA MailAlone ==
    ASSUME AccountsAssumption, Inv, AloneInv, NEW r, Requests = {r}, Mail(r)
    PROVE  AloneInv'
<1>1. UNCHANGED <<users, uses, lapsed, secrets>> /\ r \in Requests
  BY DEF Mail, others
<1>2. CASE finish(r)
  <2>1. req'[r] = Idle
    BY <1>2, Resumes DEF finish
  <2> QED BY <1>1, <2>1, IdleQuiet, QuietAlone
<1>3. CASE /\ req[r].pc = "mail" /\ req[r].then = "reset mail"
           /\ goWrite(r, req[r].id, clearPasswordResetToken(req[r].copy), "done")
  <2>1. PICK l : l = req[r]
    OBVIOUS
  <2>2. /\ writing(l) /\ LocalOK(l, users, proven) /\ AloneOK(l)
        /\ l.then = "reset mail" /\ secrets \in Nat
    BY <1>3, <2>1, Resumes DEF writing
  <2>3. /\ l.id \in UserIds /\ l.copy \in Users /\ stored(l.id) /\ Separate(l.copy)
        /\ \A s \in held(l.copy) : Owned(s, l.id)
        /\ SameDecision(l.copy, users[l.id])
    BY <2>2 DEF LocalOK, AloneOK
  <2>4. PICK copy : copy = clearPasswordResetToken(l.copy)
    OBVIOUS
  <2>5. /\ copy \in Users /\ Separate(copy) /\ held(copy) \subseteq held(l.copy)
        /\ SameDecision(copy, l.copy)
    BY <2>3, <2>4, ClearReset, ClearResetSecrets DEF Rewrites
  <2>6. SameDecision(copy, users[l.id]) /\ \A s \in held(copy) : Owned(s, l.id)
    BY <2>3, <2>5 DEF SameDecision
  <2>7. /\ req'[r].pc = "write" /\ req'[r].id = l.id /\ req'[r].copy = copy
        /\ req'[r].then = "done" /\ req'[r].accepted = {} /\ req'[r].factor = FALSE
    BY <1>1, <1>3, <2>1, <2>4, GoWriteFields
  <2>8. secrets' \in Nat /\ secrets <= secrets'
    BY <1>1, KeptSecrets
  <2> QED BY <1>1, <2>3, <2>5, <2>6, <2>7, <2>8, WillWriteAlone
<1> QED BY <1>2, <1>3 DEF Mail

LEMMA SessionAlone ==
    ASSUME AccountsAssumption, Inv, AloneInv, NEW r, Requests = {r},
           Reload(r) \/ Session(r) \/ RequestFail(r)
    PROVE  AloneInv'
<1>1. CASE Session(r) \/ RequestFail(r)
  <2>1. req'[r] = Idle /\ UNCHANGED <<users, uses, secrets>>
    BY <1>1, Resumes DEF Session, RequestFail, finish, others
  <2> QED BY <2>1, IdleQuiet, QuietAlone
<1>2. CASE Reload(r)
  <2>1. UNCHANGED <<users, uses, secrets, lapsed>>
    BY <1>2 DEF Reload, others
  <2>2. PICK l : l = req[r]
    OBVIOUS
  <2>3. /\ req'[r].pc = "session" /\ req'[r].id = l.id /\ req'[r].factor = l.factor
        /\ stored(l.id) /\ InGoodStanding(users[l.id], l.factor)
    BY <1>2, <2>2, Resumes DEF Reload, AloneOK, Local
  <2>4. SecretsInv'
    BY <2>1, Resumes, Drawing
  <2>5. AloneOK(req[r])'
    BY <2>1, <2>3 DEF AloneOK, CreatePcs, writing, stored, InGoodStanding,
                      canAuthenticate, isBanActive
  <2> QED BY <2>4, <2>5 DEF AloneInv
<1> QED BY <1>1, <1>2

\* A ban that runs out lets an account in that it kept out, and keeps none out.
LEMMA LapseAlone ==
    ASSUME AccountsAssumption, Inv, AloneInv, NEW r, Requests = {r},
           lapsed => lapsed', UNCHANGED <<users, uses, secrets, req>>
    PROVE  AloneInv'
<1>1. SecretsInv'
  BY Resumes, Drawing
<1>2. \A user : canAuthenticate(user) => canAuthenticate(user)'
  BY DEF canAuthenticate, isBanActive
<1>3. \A s, u : Owned(s, u) => Owned(s, u)'
  BY DEF Owned, stored
<1>4. AloneOK(req[r])
  BY Resumes
<1>5. AloneOK(req[r])'
  BY <1>2, <1>3, <1>4 DEF AloneOK, InGoodStanding, stored
<1> QED BY <1>1, <1>5 DEF AloneInv

LEMMA NextAlone ==
    ASSUME AccountsAssumption, Inv, AloneInv, NEW r, Requests = {r}, [Next]_vars
    PROVE  AloneInv'
<1>1. CASE BansLapse \/ UNCHANGED vars
  BY <1>1, LapseAlone DEF BansLapse, vars
<1>2. CASE Step(r)
  BY <1>2, RegisterFindAlone, LinkAlone, VerifyEmailAlone, SignInAlone,
     VerifyTwoFactorAlone, GoogleAuthFindAlone, GoogleAuthFindByEmailAlone, CreateAlone,
     VerifyAlone, VerifiedAlone, ModerateAlone, DeleteAccountAlone, WriteAlone,
     MailAlone, SessionAlone DEF Step
<1> QED BY <1>1, <1>2 DEF Next

-----------------------------------------------------------------------------

\* Requests served one at a time: a link that verifies or resets, a two-factor
\* challenge and a recovery code are each accepted once, although the handler
\* that accepts one has yet to write that it is spent (User.entity:496-651).
THEOREM SecretsAreUsedOnce ==
    ASSUME AccountsAssumption, NEW r, Requests = {r}
    PROVE  Spec => []OneTimeSecrets
<1>1. Init => Inv /\ AloneInv
  BY InitInv, InitAlone
<1>2. Inv /\ AloneInv /\ [Next]_vars => Inv' /\ AloneInv'
  BY NextInv, NextAlone
<1>3. AloneInv => OneTimeSecrets
  BY DEF AloneInv, SecretsInv, OneTimeSecrets
<1> QED BY <1>1, <1>2, <1>3, PTL DEF Spec

\* Requests served one at a time: a session is issued only for an account that is
\* neither removed nor banned then, and past its second factor when one is set up,
\* although the handler decides so operations earlier (SignIn:48-66,
\* GoogleAuth:55-77, VerifyTwoFactor:39-56).
THEOREM SessionsInGoodStanding ==
    ASSUME AccountsAssumption, NEW r, Requests = {r}
    PROVE  Spec => [][IssuedInGoodStanding]_vars
<1>1. Init => Inv /\ AloneInv
  BY InitInv, InitAlone
<1>2. Inv /\ AloneInv /\ [Next]_vars => Inv' /\ AloneInv'
  BY NextInv, NextAlone
<1>3. ASSUME Inv, AloneInv PROVE IssuedInGoodStanding
  BY <1>3, Resumes DEF IssuedInGoodStanding, Session, AloneOK, InGoodStanding, me
<1> QED BY <1>1, <1>2, <1>3, PTL DEF Spec

\* Requests served one at a time: no handler but an administrator's lifts a ban or
\* a removal or imposes one, though each writes those fields back with the rest of
\* the copy it read (User.mapper:144-203).
THEOREM DecisionsAreKept ==
    ASSUME AccountsAssumption, NEW r, Requests = {r}
    PROVE  Spec => [][DecisionKept]_vars
<1>1. Init => Inv /\ AloneInv
  BY InitInv, InitAlone
<1>2. Inv /\ AloneInv /\ [Next]_vars => Inv' /\ AloneInv'
  BY NextInv, NextAlone
<1>3. ASSUME Inv, AloneInv PROVE DecisionKept
  <2> SUFFICES ASSUME NEW u \in UserIds, Write(r), stored(u), req[r].then # "moderated"
               PROVE  users'[u].ban = users[u].ban /\ users'[u].deleted = users[u].deleted
    BY DEF DecisionKept
  <2>1. /\ req[r].pc = "write" /\ LocalOK(req[r], users, proven) /\ AloneOK(req[r])
        /\ users \in [UserIds -> Users \cup {Absent, Removed}]
    BY <1>3, Resumes DEF Write
  <2>2. /\ req[r].copy \in Users /\ SameDecision(req[r].copy, users[req[r].id])
        /\ stored(req[r].id)
    BY <2>1 DEF LocalOK, AloneOK, writing
  <2>3. users' = [users EXCEPT ![req[r].id]
                                = toAuthPersistence(req[r].copy, users[req[r].id])]
    BY <2>2 DEF Write, update
  <2>4. SameDecision(toAuthPersistence(req[r].copy, users[req[r].id]), req[r].copy)
    BY <2>2 DEF toAuthPersistence, SameDecision, Users
  <2> QED BY <2>1, <2>2, <2>3, <2>4 DEF SameDecision
<1> QED BY <1>1, <1>2, <1>3, PTL DEF Spec

=============================================================================
