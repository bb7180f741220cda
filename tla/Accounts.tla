------------------------------ MODULE Accounts ------------------------------
(***************************************************************************)
(* Accounts, composed with the storage of Retention: the magic links of    *)
(* auth.py and its handlers in main.py, the creation of sessions for an    *)
(* account, and cleanup_personal_data of privacy_cleanup.py, which erases  *)
(* the sessions of an account and then the account.                        *)
(*                                                                         *)
(* A visitor asks for links, a browser exchanges them and creates          *)
(* sessions, a cleanup erases an account or does the daily round.  Each    *)
(* step ends where the code commits or waits for a lock.                   *)
(*                                                                         *)
(* Abstractions: the limits count the requests of one hour, which does not *)
(* end; links and tokens expire at any time; the row of the user and the   *)
(* audit lock are taken together by a cleanup, since whoever holds the     *)
(* first alone only keeps others waiting; what OtsPipeline says of purges  *)
(* is one step here, which fails when an outage is left.                   *)
(***************************************************************************)
EXTENDS Retention

CONSTANTS
  Accounts,      \* 1 .. n, ids of accounts
  Emails, Addresses,
  Links,         \* 1 .. n, the magic links there may be
  Visitors, Browsers, Cleaners,
  EmailLimit,    \* settings.magic_link_email_limit_per_hour
  AddressLimit,  \* settings.magic_link_ip_limit_per_hour
  Scenes         \* bound: [actors, quota, users, owners, links, outages]: who
                 \* acts, how many links are asked for, and what there is at first

People == Visitors \cup Browsers \cup Cleaners

\* The accounts there are at first.
Taken(scene) == {a \in Accounts : scene.users[a] # None}

LinkRows == [user : Accounts, consumed : BOOLEAN, expired : BOOLEAN]

ASSUME AccountsAssumption ==
  /\ Accounts \subseteq Nat /\ IsFiniteSet(Accounts)
  /\ Links \subseteq Nat /\ IsFiniteSet(Links)
  /\ Visitors \cap Browsers = {} /\ (Visitors \cup Browsers) \cap Cleaners = {}
  /\ IsFiniteSet(People) /\ People \cap (Workers \cup Provers) = {}
  /\ None \notin People \cup Emails \cup Addresses /\ None \notin LinkRows
  /\ EmailLimit \in Nat \ {0} /\ AddressLimit \in Nat \ {0}
  /\ \A scene \in Scenes :
       /\ scene.actors \subseteq People \cup Workers \cup Provers
       /\ scene.users \in [Accounts -> Emails \cup {None}]
       /\ DOMAIN scene.owners \subseteq Sessions
       /\ \A s \in DOMAIN scene.owners : scene.owners[s] \in Taken(scene)
       /\ scene.outages \in 0 .. Outages
       /\ DOMAIN scene.links \subseteq Links
       /\ \A l \in DOMAIN scene.links : scene.links[l] \in Taken(scene)
       /\ scene.quota \in 0 .. Cardinality(Links \ DOMAIN scene.links)
       /\ scene.quota <= Cardinality(Accounts \ Taken(scene))

VARIABLES
  user,      \* per account, its email, None before it exists, or "erased"
  owner,     \* per session, owner_user_id
  link,      \* per magic link: user, consumed, expired; None when there is none
  inbox,     \* the links that were delivered
  access,    \* the access tokens that are good: link and user
  attempts,  \* the rows of magic_link_request_attempts
  pc,        \* per visitor, browser or cleanup, where it is
  run,       \* per visitor, browser or cleanup, what it works on
  quota,     \* how many links may still be asked for
  granted,   \* history: per link, how many tokens it was exchanged for
  sent       \* history: those of the attempts for which a link was issued

accountVars == <<user, owner, link, inbox, access, attempts, granted, sent>>
vars == <<retentionVars, accountVars, pc, run, quota>>

NoRun == [email |-> None, address |-> None, account |-> None, link |-> None,
          targets |-> {}, old |-> {}, failed |-> FALSE]

Exists(a) == user[a] \in Emails

Step(p, from, to) == p \in actors /\ pc[p] = from /\ pc' = [pc EXCEPT ![p] = to]

\* The request is answered, the run is over, or the transaction is rolled back.
Finish(p) ==
  /\ pc' = [pc EXCEPT ![p] = "idle"]
  /\ run' = [run EXCEPT ![p] = NoRun]

-----------------------------------------------------------------------------
(***************************************************************************)
(* Locks: who holds one follows from where it is.                          *)
(***************************************************************************)
Erasing == {c \in Cleaners : pc[c] = "erasing"}

AuditFree == Erasing = {}

\* SELECT ... FOR UPDATE of a user: create_capture_session, the cleanup.
UserHolders(a) == {p \in Browsers \cup Cleaners :
                     pc[p] \in {"inserting", "erasing"} /\ run[p].account = a}

LinkHolders(l) == {p \in Browsers : pc[p] = "granting" /\ run[p].link = l}

KeptSessions(a) == {s \in Sessions : life[s] = "kept" /\ owner[s] = a}

LinksOf(a) == {l \in Links : link[l] # None /\ link[l].user = a}

MutantGained(c) == FALSE

\* The recheck under the lock of the account.
Gained(c) == KeptSessions(run[c].account) # {}

\* The cleanup deletes the account and what belongs to it.
ToDelete(c) == run[c].account # None /\ ~run[c].failed

Deletes(c) == ToDelete(c) /\ ~Gained(c) /\ Exists(run[c].account)

\* The links whose rows it deletes.
Doomed(c) ==
  {l \in run[c].old : link[l] # None}
    \cup (IF Deletes(c) THEN LinksOf(run[c].account) ELSE {})

\* The processes p is waiting for.
Blockers(p) ==
  CASE pc[p] = "granting"  -> Erasing \cup UserHolders(link[run[p].link].user)
    [] pc[p] = "inserting" -> Erasing
    [] pc[p] = "erasing"   -> UNION {LinkHolders(l) : l \in Doomed(p)}
    [] OTHER -> {}

\* Processes that wait for each other in a circle.
Deadlocked(S) == (\A p \in S : Blockers(p) # {}) /\ UNION {Blockers(p) : p \in S} = S

\* PostgreSQL cancels one of them: its transaction is rolled back.
BreakDeadlock(p) ==
  /\ pc[p] \in {"granting", "inserting", "erasing"}
  /\ \E S \in SUBSET {q \in People : Blockers(q) # {}} : p \in S /\ Deadlocked(S)
  /\ Finish(p)
  /\ UNCHANGED <<retentionVars, accountVars, quota>>

-----------------------------------------------------------------------------
(***************************************************************************)
(* POST /v1/auth/magic-links.                                              *)
(***************************************************************************)
OfEmail(e, rows)   == {r \in rows : r.email = e}
OfAddress(i, rows) == {r \in rows : r.address = i}

MutantAllowed(e, i) ==
  /\ Cardinality(OfEmail(e, attempts)) <= EmailLimit
  /\ Cardinality(OfAddress(i, attempts)) < AddressLimit

\* The counts of register_magic_link_attempt: committed attempts only.
Allowed(e, i) ==
  /\ Cardinality(OfEmail(e, attempts)) < EmailLimit
  /\ Cardinality(OfAddress(i, attempts)) < AddressLimit

NewAccounts == {a \in Accounts : user[a] = None}
NewLinks    == {l \in Links : link[l] = None /\ granted[l] = 0 /\ l \notin inbox}
NewSessions == {s \in Sessions \ Legacy : life[s] = "absent"}

CountAttempts(p) ==
  \E e \in Emails, i \in Addresses :
    /\ p \in Visitors /\ quota > 0 /\ quota' = quota - 1
    /\ Step(p, "idle", IF Allowed(e, i) THEN "asking" ELSE "refusing")
    /\ run' = [run EXCEPT ![p].email = e, ![p].address = i]
    /\ UNCHANGED <<retentionVars, accountVars>>

NewAttempt(p) ==
  [id |-> Cardinality(attempts) + 1, email |-> run[p].email, address |-> run[p].address]

RecordAttempt(p) == attempts' = attempts \cup {NewAttempt(p)}

\* Too many: the attempt counts, and the answer is 202 all the same.
Refuse(p) ==
  /\ p \in Visitors /\ pc[p] = "refusing" /\ AuditFree
  /\ RecordAttempt(p)
  /\ Finish(p)
  /\ UNCHANGED <<retentionVars, user, owner, link, inbox, access, granted, sent, quota>>

\* create_magic_link looks the account up.
FindAccount(p) ==
  /\ Step(p, "asking", "issuing")
  /\ run' = [run EXCEPT ![p].account =
               IF \E a \in Accounts : user[a] = run[p].email
               THEN CHOOSE a \in Accounts : user[a] = run[p].email ELSE None]
  /\ UNCHANGED <<retentionVars, accountVars, quota>>

Lowest(S) == CHOOSE x \in S : \A y \in S : x <= y

\* A new account, unless the email was taken meanwhile, or the one found; a
\* link; the attempt: in one commit.  Then the link is sent, or is not.
IssueLink(p) ==
  /\ p \in Visitors /\ pc[p] = "issuing" /\ AuditFree
  /\ \E a \in (IF run[p].account # None THEN {run[p].account} \cap {b \in Accounts : Exists(b)}
               ELSE {b \in NewAccounts : b = Lowest(NewAccounts)}) :
       /\ UserHolders(a) = {}
       /\ \A b \in Accounts \ {a} : user[b] # run[p].email
       /\ user' = [user EXCEPT ![a] = run[p].email]
       /\ link' = [link EXCEPT ![Lowest(NewLinks)] =
                     [user |-> a, consumed |-> FALSE, expired |-> FALSE]]
  /\ RecordAttempt(p)
  /\ sent' = sent \cup {NewAttempt(p)}
  /\ inbox' \in {inbox, inbox \cup {Lowest(NewLinks)}}
  /\ Finish(p)
  /\ UNCHANGED <<retentionVars, owner, access, granted, quota>>

\* The account found is gone, or the email of a new one is taken: 500, and
\* the attempt is rolled back too.
CannotIssue(p) ==
  /\ p \in Visitors /\ pc[p] = "issuing"
  /\ IF run[p].account # None THEN ~Exists(run[p].account)
     ELSE \E a \in Accounts : user[a] = run[p].email
  /\ Finish(p)
  /\ UNCHANGED <<retentionVars, accountVars, quota>>

-----------------------------------------------------------------------------
(***************************************************************************)
(* POST /v1/auth/magic-links/exchange and POST /v1/sessions.               *)
(***************************************************************************)
Good(l) == link[l] # None /\ ~link[l].consumed /\ ~link[l].expired

MutantLockLink(p) ==
  \E l \in inbox :
    /\ p \in Browsers /\ Good(l)
    /\ Step(p, "idle", "granting")
    /\ run' = [run EXCEPT ![p].link = l]
    /\ UNCHANGED <<retentionVars, accountVars, quota>>

\* SELECT ... FOR UPDATE; otherwise the answer is 401.
LockLink(p) ==
  \E l \in inbox :
    /\ p \in Browsers /\ LinkHolders(l) = {} /\ Good(l)
    /\ Step(p, "idle", "granting")
    /\ run' = [run EXCEPT ![p].link = l]
    /\ UNCHANGED <<retentionVars, accountVars, quota>>

\* The token refers to the user, whose row must be free for that.
Grant(p) ==
  /\ p \in Browsers /\ pc[p] = "granting" /\ Blockers(p) = {}
  /\ LET l == run[p].link
     IN  /\ link' = [link EXCEPT ![l].consumed = TRUE]
         /\ access' = access \cup {[link |-> l, user |-> link[l].user]}
         /\ granted' = [granted EXCEPT ![l] = @ + 1]
  /\ Finish(p)
  /\ UNCHANGED <<retentionVars, user, owner, inbox, attempts, sent, quota>>

\* The middleware's own transaction.  (Bound: there is an id left.)
Authenticate(p) ==
  \E token \in access :
    /\ p \in Browsers
    /\ Cardinality(NewSessions) > Cardinality({b \in Browsers : pc[b] # "idle"})
    /\ Step(p, "idle", "creating")
    /\ run' = [run EXCEPT ![p].account = token.user]
    /\ UNCHANGED <<retentionVars, accountVars, quota>>

\* 401 when the account was erased meanwhile.
FindOwner(p) ==
  /\ p \in Browsers /\ pc[p] = "creating" /\ UserHolders(run[p].account) = {}
  /\ IF Exists(run[p].account)
     THEN Step(p, "creating", "inserting") /\ UNCHANGED run
     ELSE Finish(p)
  /\ UNCHANGED <<retentionVars, accountVars, quota>>

InsertSession(p) ==
  /\ p \in Browsers /\ pc[p] = "inserting" /\ AuditFree
  /\ CreateRow(Lowest(NewSessions))
  /\ owner' = [owner EXCEPT ![Lowest(NewSessions)] = run[p].account]
  /\ Finish(p)
  /\ UNCHANGED <<user, link, inbox, access, attempts, granted, sent, quota>>

-----------------------------------------------------------------------------
(***************************************************************************)
(* cleanup_personal_data.                                                  *)
(***************************************************************************)
ListSessions(c, a, targets) ==
  /\ c \in Cleaners
  /\ Step(c, "idle", "purging")
  /\ run' = [run EXCEPT ![c] = [NoRun EXCEPT !.account = a, !.targets = targets,
               !.old = {l \in Links : link[l] # None /\ link[l].expired}]]
  /\ UNCHANGED <<retentionVars, accountVars, quota>>

\* An operator erases an account: --user-id.
StartErasure(c) == \E a \in Accounts : Exists(a) /\ ListSessions(c, a, KeptSessions(a))

\* The daily round, over the sessions that are twelve months old.
StartRound(c) == \E S \in SUBSET {s \in Sessions : life[s] = "kept"} : ListSessions(c, None, S)

\* Each session in a transaction of its own, when its row is free.
PurgeNext(c) ==
  /\ c \in Cleaners /\ pc[c] = "purging" /\ run[c].targets # {}
  /\ LET s == Lowest(run[c].targets)
         rest == run[c].targets \ {s}
     IN  /\ Free(s)
         /\ \/ /\ life[s] = "kept" /\ Purgeable(s)
               /\ PurgeSession(s)
               /\ run' = [run EXCEPT ![c].targets = rest]
            \/ /\ life[s] # "kept"
               /\ run' = [run EXCEPT ![c].targets = rest]
               /\ UNCHANGED retentionVars
            \/ /\ life[s] = "kept" /\ ~Purgeable(s)
               /\ run' = [run EXCEPT ![c].targets = rest, ![c].failed = TRUE]
               /\ UNCHANGED retentionVars
  /\ UNCHANGED <<accountVars, pc, quota>>

\* The store fails, before the proofs of the session are deleted or after, or a
\* job of the session runs.
PurgeFails(c) ==
  /\ c \in Cleaners /\ pc[c] = "purging" /\ run[c].targets # {} /\ outages > 0
  /\ outages' = outages - 1
  /\ LET s == Lowest(run[c].targets)
         begun == {s} \cap {t \in Sessions : Free(t) /\ life[t] = "kept" /\ Purgeable(t)}
     IN  /\ proofs' \in {proofs, proofs \ begun}
         /\ run' = [run EXCEPT ![c].targets = @ \ {s}, ![c].failed = TRUE]
  /\ UNCHANGED <<actors, life, storage, disk, parts, finals, rowLock, now, at, job, history,
                 accountVars, pc, quota>>

LockAccount(c) ==
  /\ c \in Cleaners /\ run[c].targets = {}
  /\ AuditFree /\ UserHolders(run[c].account) = {}
  /\ Step(c, "purging", "erasing")
  /\ UNCHANGED <<retentionVars, accountVars, run, quota>>

DeleteLinks(c) == link' = [l \in Links |-> IF l \in Doomed(c) THEN None ELSE link[l]]

\* Old links go, and the account with what belongs to it unless a purge has
\* failed; an account that has sessions is an error, which undoes it all.
Erase(c) ==
  /\ c \in Cleaners /\ pc[c] = "erasing" /\ Blockers(c) = {}
  /\ IF ToDelete(c) /\ Gained(c)
     THEN UNCHANGED <<link, access, user>>
     ELSE LET a == run[c].account
          IN  /\ DeleteLinks(c)
              /\ access' = IF Deletes(c) THEN {t \in access : t.user # a} ELSE access
              /\ user' = IF Deletes(c) THEN [user EXCEPT ![a] = "erased"] ELSE user
  /\ Finish(c)
  /\ UNCHANGED <<retentionVars, owner, inbox, attempts, granted, sent, quota>>

-----------------------------------------------------------------------------
ExpireLink(l) ==
  /\ link[l] # None /\ ~link[l].expired
  /\ link' = [link EXCEPT ![l].expired = TRUE]
  /\ UNCHANGED <<retentionVars, user, owner, inbox, access, attempts, granted, sent, pc, run, quota>>

ExpireToken(t) ==
  /\ access' = access \ {t}
  /\ UNCHANGED <<retentionVars, user, owner, link, inbox, attempts, granted, sent, pc, run, quota>>

\* A process dies, or its request is dropped: nothing of its transaction stays.
Die(p) ==
  /\ pc[p] # "idle" /\ outages > 0
  /\ outages' = outages - 1
  /\ Finish(p)
  /\ UNCHANGED <<actors, life, storage, disk, bucket, rowLock, now, at, job, history, accountVars, quota>>

Init ==
  /\ RetentionInit
  /\ access = {}
  /\ attempts = {} /\ sent = {}
  /\ granted = [l \in Links |-> 0]
  /\ pc = [p \in People |-> "idle"] /\ run = [p \in People |-> NoRun]
  /\ \E scene \in Scenes :
       /\ actors = scene.actors /\ outages = scene.outages
       /\ user = scene.users /\ quota = scene.quota
       /\ link = [l \in Links |-> IF l \in DOMAIN scene.links
                    THEN [user |-> scene.links[l], consumed |-> FALSE, expired |-> FALSE]
                    ELSE None]
       /\ inbox = DOMAIN scene.links
       /\ owner = [s \in Sessions |-> IF s \in DOMAIN scene.owners THEN scene.owners[s] ELSE None]
       /\ life = [s \in Sessions |-> IF s \in DOMAIN scene.owners THEN "kept" ELSE "absent"]

\* What a request or a run does once it has begun.
Proceed(p) ==
  \/ Refuse(p) \/ FindAccount(p) \/ IssueLink(p) \/ CannotIssue(p)
  \/ Grant(p) \/ FindOwner(p) \/ InsertSession(p)
  \/ PurgeNext(p) \/ PurgeFails(p) \/ LockAccount(p) \/ Erase(p)

Next ==
  \/ RetentionNext /\ UNCHANGED <<accountVars, pc, run, quota>>
  \/ \E p \in People :
       \/ CountAttempts(p) \/ LockLink(p) \/ Authenticate(p)
       \/ StartErasure(p) \/ StartRound(p)
       \/ Proceed(p) \/ BreakDeadlock(p) \/ Die(p)
  \/ \E l \in Links : ExpireLink(l)
  \/ \E t \in access : ExpireToken(t)

Spec == Init /\ [][Next]_vars

(***************************************************************************)
(* A download goes on; the retention cleanup runs every day, and           *)
(* PostgreSQL grants a lock to its waiters in turn.  Nothing else need     *)
(* happen: no request, erasure, expiry or fault.                           *)
(***************************************************************************)
Fairness ==
  /\ \A c \in Expirers : SF_vars(Expiring(c) /\ UNCHANGED <<accountVars, pc, run, quota>>)
  /\ WF_vars(\E p \in Downloads : at[p] # "idle" /\ Downloading(p)
                                  /\ UNCHANGED <<accountVars, pc, run, quota>>)

FairSpec == Spec /\ Fairness

-----------------------------------------------------------------------------
AttemptRows == [id : Nat, email : Emails, address : Addresses]

RunRows ==
  [email : Emails \cup {None}, address : Addresses \cup {None},
   account : Accounts \cup {None}, link : Links \cup {None},
   targets : SUBSET Sessions, old : SUBSET Links, failed : BOOLEAN]

Stages == {"idle", "asking", "refusing", "issuing", "granting", "creating", "inserting",
           "purging", "erasing"}

\* The rows are those of models.py, and each process is somewhere in its script.
AccountsTypeOK ==
  /\ actors \subseteq People \cup Workers \cup Provers
  /\ user \in [Accounts -> Emails \cup {None, "erased"}]
  /\ owner \in [Sessions -> Accounts \cup {None}]
  /\ link \in [Links -> LinkRows \cup {None}]
  /\ inbox \subseteq Links /\ access \subseteq [link : Links, user : Accounts]
  /\ attempts \subseteq AttemptRows /\ IsFiniteSet(attempts) /\ sent \subseteq attempts
  /\ granted \in [Links -> Nat] /\ quota \in Nat
  /\ pc \in [People -> Stages] /\ run \in [People -> RunRows]

TypeOK == RetentionTypeOK /\ AccountsTypeOK

\* No session, link or token outlives its account, whatever an owner does
\* with links and tokens he still holds while the account is erased
\* (docs/privacy-release.md: a capture created during the erasure blocks it).
NoOrphans ==
  /\ \A s \in Sessions : life[s] = "kept" => Exists(owner[s])
  /\ \A l \in Links : link[l] # None => Exists(link[l].user)
  /\ \A t \in access : Exists(t.user)

\* A link is exchanged for one token, although several browsers open it at
\* once, the exchange fails half-way, or its account is being erased.
LinkUsedOnce == \A l \in Links : granted[l] <= 1

\* No more links are sent in an hour than the limits for an email and for an
\* address allow (docs/authentication.md:22: persistent limits).
RequestsWithinLimit ==
  /\ \A e \in Emails : Cardinality(OfEmail(e, sent)) <= EmailLimit
  /\ \A i \in Addresses : Cardinality(OfAddress(i, sent)) <= AddressLimit

\* The attempts are counted without a lock: requests that overlap do pass the
\* limit (RequestsWithinLimit), but by no more than one less than there are at a
\* time; and a request that is rolled back does not count and sends nothing.
ExcessBounded ==
  LET excess == Cardinality(Visitors \cap actors) - 1
  IN  /\ \A e \in Emails : Cardinality(OfEmail(e, sent)) <= EmailLimit + excess
      /\ \A i \in Addresses : Cardinality(OfAddress(i, sent)) <= AddressLimit + excess

\* The row of a session is never purged before its evidence: what is left in
\* the bucket is still known, and will be deleted when it is due
\* (purge_session: "legacy object retention must finish"), but for the package
\* a download put back; its proofs go with the row, whoever stores some then.
EvidenceIsKnown ==
  \A s \in Sessions : life[s] = "gone" =>
    /\ s \notin proofs /\ s \notin parts
    /\ FinalsOf(s) # {} => s \in late

=============================================================================
