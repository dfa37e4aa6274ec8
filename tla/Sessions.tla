------------------------------ MODULE Sessions ------------------------------
(***************************************************************************)
(* Users, their sessions and the accounts linked to them: the password,    *)
(* FastResearch and FastCAS sign-ins, the rotation of refresh tokens with  *)
(* its grace window, and the administrator who disables users              *)
(* (internal/platform/auth, application/admin.go, web/src/api.ts).         *)
(*                                                                         *)
(* A session is a row that one refresh token names; rotation makes a new   *)
(* row of the same family.  The FastCAS issuer is a second party: what it  *)
(* says of a link is a snapshot that may be applied late, twice or never.  *)
(***************************************************************************)
EXTENDS Integers, Sequences, FiniteSets

CONSTANTS
    Users, FirstAdmin,   \* FirstAdmin: AdminIdentifier of the configuration
    Links, LinkUser,     \* the user a FastCAS link is made for
    CasSids,             \* sessions of the identity at the issuer
    NoLink,
    MaxSessions,         \* bound: session rows
    MaxUpsets            \* bound: edits, logouts, thefts, notices, elapsed windows together

ASSUME SessionsAssumption ==
    /\ FirstAdmin \in Users /\ NoLink \notin Links
    /\ LinkUser \in [Links -> Users]
    /\ MaxSessions \in Nat

VARIABLES
    user,
    session,      \* the rows, in the order of their creation
    signingIn,    \* users whose password a Login has verified and not yet used
    signingOut,   \* sessions a Logout has authenticated and not yet revoked
    link,         \* fastcas_links
    remote,       \* the links at the issuer
    snapshots,    \* what handlers and events carry of links
    upsets,
    held          \* the token that each family's browser stores, 0 for none

identityVars == <<user, session, signingIn, signingOut, link, remote, snapshots, upsets, held>>
casVars == <<link, remote, snapshots>>

SessionIds == 1..MaxSessions

User == [status: {"none", "active", "disabled"}, role: {"member", "admin"}]

\* family: the first row of the family; next: the row whose token replaced this
\* one's, 0 for none; fresh: rotated at most refreshReuseGrace ago.
SessionRow == [user: Users, family: SessionIds, status: {"active", "rotated", "revoked"},
               next: SessionIds \cup {0}, fresh: BOOLEAN, expired: BOOLEAN,
               link: Links \cup {NoLink}, sid: CasSids \cup {NoLink}]

LinkState == [state: {"none", "prepared", "active", "revoked"}, version: Nat]
Snapshot == [link: Links, state: {"prepared", "active", "revoked"}, version: Nat]

IdentityTypeOK ==
    /\ user \in [Users -> User]
    /\ session \in Seq(SessionRow)
    /\ signingIn \in SUBSET Users /\ signingOut \in SUBSET SessionIds
    /\ link \in [Links -> LinkState] /\ remote \in [Links -> LinkState]
    /\ snapshots \in SUBSET Snapshot
    /\ upsets \in Nat
    /\ held \in [SessionIds -> SessionIds \cup {0}]

\* The service has started: EnsureAdmin created the configured administrator.
IdentityInit ==
    /\ user = [u \in Users |-> IF u = FirstAdmin THEN [status |-> "active", role |-> "admin"]
                               ELSE [status |-> "none", role |-> "member"]]
    /\ session = << >>
    /\ signingIn = {} /\ signingOut = {}
    /\ link = [l \in Links |-> [state |-> "none", version |-> 0]]
    /\ remote = [l \in Links |-> [state |-> "none", version |-> 0]]
    /\ snapshots = {}
    /\ upsets = 0
    /\ held = [f \in SessionIds |-> 0]

Rows == 1..Len(session)
ActiveUser(u) == user[u].status = "active"
Usable(s) == session[s].status = "active" /\ ~session[s].expired

\* What does not happen all the time; the bound is on all of it together.
Upset == upsets < MaxUpsets /\ upsets' = upsets + 1

\* The rows `which` with status "revoked".
Revoked(which) == [s \in Rows |-> IF s \in which THEN [session[s] EXCEPT !.status = "revoked"]
                                  ELSE session[s]]

-----------------------------------------------------------------------------
(* Sign-in.                                                                 *)

\* A sign-in's row starts a family of its own, whose browser stores its token.
SignIn(u, l, c) ==
    /\ Len(session) < MaxSessions
    /\ session' = Append(session,
          [user |-> u, family |-> Len(session) + 1, status |-> "active", next |-> 0,
           fresh |-> FALSE, expired |-> FALSE, link |-> l, sid |-> c])
    /\ held' = [held EXCEPT ![Len(session) + 1] = Len(session) + 1]

\* Login: the user is read and the password verified outside a transaction (one
\* Login and one Logout under way at a time are a bound of the model) ...
LoginVerifies(u) ==
    /\ ActiveUser(u)
    /\ signingIn = {} /\ signingIn' = {u}
    /\ UNCHANGED <<user, session, signingOut, casVars, upsets, held>>

\* ... and the row is inserted whatever happened to the user meanwhile.
LoginInserts(u) ==
    /\ u \in signingIn /\ signingIn' = signingIn \ {u}
    /\ SignIn(u, NoLink, NoLink)
    /\ UNCHANGED <<user, signingOut, casVars, upsets>>

\* The first ticket of an account makes its user.
LoginFastResearch(u) ==
    /\ user[u].status # "disabled"
    /\ user' = IF user[u].status = "none" THEN [user EXCEPT ![u].status = "active"] ELSE user
    /\ SignIn(u, NoLink, NoLink)
    /\ UNCHANGED <<signingIn, signingOut, casVars, upsets>>

-----------------------------------------------------------------------------
(* Rotation.                                                                *)

\* refreshGraceSuccessor: the unused row that replaced a row rotated just now.
GraceSuccessor(s) ==
    /\ session[s].status = "rotated" /\ session[s].fresh
    /\ session[session[s].next].status = "active"

\* The row that a presented token rotates.
Rotating(s) == IF GraceSuccessor(s) THEN session[s].next ELSE s

\* The row a rotation inserts copies the sign-in's source.
Successor_Unlinked(s) ==
    [session[s] EXCEPT !.status = "active", !.next = 0, !.fresh = FALSE, !.link = NoLink]

Successor(s) == [session[s] EXCEPT !.status = "active", !.next = 0, !.fresh = FALSE]

\* The rotated row, and the predecessor that now points to the newest one
\* without a new window.
Replaced_StillActive(p, s, new) ==
    [session EXCEPT ![s].next = new, ![s].fresh = TRUE, ![p].next = new]

Replaced(p, s, new) ==
    [session EXCEPT ![s].status = "rotated", ![s].next = new, ![s].fresh = TRUE, ![p].next = new]

Rotate(p, s) ==
    /\ ActiveUser(session[s].user) /\ Len(session) < MaxSessions
    /\ session' = Append(Replaced(p, s, Len(session) + 1), Successor(s))

Family(s) == session[s].family

\* Reuse, or a token that was never replaced and is not active.
Refused(s) ==
    IF session[s].next # 0
    THEN session' = Revoked({t \in Rows : Family(t) = Family(s)})
    ELSE UNCHANGED session

Accepted(p) == Usable(Rotating(p))

\* The browser presents the token it stores, one request at a time (the Web
\* Lock of withRefreshLock); its answer may be lost.
BrowserRefreshes(f) ==
    LET p == held[f] IN
    /\ f \in Rows /\ p # 0
    /\ IF Accepted(p)
       THEN /\ Rotate(p, Rotating(p))
            /\ held' = [held EXCEPT ![f] = Len(session')] \/ UNCHANGED held
       ELSE /\ Refused(Rotating(p))
            /\ held' = [held EXCEPT ![f] = 0] \/ UNCHANGED held
    /\ UNCHANGED <<user, signingIn, signingOut, casVars, upsets>>

\* Somebody else presents a token of the family: a restored profile, a copy.
OtherRefreshes(p) ==
    /\ Upset
    /\ IF Accepted(p) THEN Rotate(p, Rotating(p)) ELSE Refused(Rotating(p))
    /\ UNCHANGED <<user, signingIn, signingOut, casVars, held>>

GraceEnds(s) ==
    /\ Upset
    /\ session[s].fresh
    /\ session' = [session EXCEPT ![s].fresh = FALSE]
    /\ UNCHANGED <<user, signingIn, signingOut, casVars, held>>

SessionExpires(s) ==
    /\ Upset
    /\ Usable(s)
    /\ session' = [session EXCEPT ![s].expired = TRUE]
    /\ UNCHANGED <<user, signingIn, signingOut, casVars, held>>

\* Logout authenticates the request first ...
LogoutAuthenticates(s) ==
    /\ Upset
    /\ Usable(s) /\ ActiveUser(session[s].user)
    /\ signingOut = {} /\ signingOut' = {s}
    /\ held' = [held EXCEPT ![Family(s)] = 0]
    /\ UNCHANGED <<user, session, signingIn, casVars>>

\* ... and revokes that one row, also when it was rotated in between.
LogoutRevokes(s) ==
    /\ s \in signingOut /\ signingOut' = signingOut \ {s}
    /\ session' = Revoked({s})
    /\ UNCHANGED <<user, signingIn, casVars, upsets, held>>

-----------------------------------------------------------------------------
(* Administration of users.                                                 *)

ActiveRowsOf(u) == {s \in Rows : session[s].user = u /\ session[s].status = "active"}

CreateUser(u) ==
    /\ Upset /\ user[u].status = "none"
    /\ \E r \in {"member", "admin"} : user' = [user EXCEPT ![u] = [status |-> "active", role |-> r]]
    /\ UNCHANGED <<session, signingIn, signingOut, casVars, held>>

OtherAdmin_AnyStatus(u) == \E a \in Users \ {u} : user[a].role = "admin" /\ user[a].status # "none"

OtherAdmin(u) == \E a \in Users \ {u} : user[a].role = "admin" /\ user[a].status = "active"

UpdateUser(u) ==
    /\ Upset /\ user[u].status # "none"
    /\ \E r \in {"member", "admin"}, st \in {"active", "disabled"} :
          LET demoted == user[u].role = "admin" /\ r # "admin"
              shut == user[u].status = "active" /\ st # "active"
          IN  /\ demoted \/ shut => OtherAdmin(u)
              /\ user' = [user EXCEPT ![u] = [status |-> st, role |-> r]]
              /\ session' = IF st = "disabled" THEN Revoked(ActiveRowsOf(u)) ELSE session
    /\ UNCHANGED <<signingIn, signingOut, casVars, held>>

\* RevokeUserSessions, and ResetUserPassword, which does the same to the sessions.
RevokeUserSessions(u) ==
    /\ Upset /\ ActiveRowsOf(u) # {}
    /\ session' = Revoked(ActiveRowsOf(u))
    /\ UNCHANGED <<user, signingIn, signingOut, casVars, held>>

-----------------------------------------------------------------------------
(* FastCAS links.                                                           *)

Seen(l, r) == [link |-> l, state |-> r[l].state, version |-> r[l].version]

\* The issuer prepares the link, then the row is inserted; one live link per
\* user.  The insert fails when the user or the session has gone meanwhile.
PrepareLink(l) ==
    LET u == LinkUser[l]
        free == \A k \in Links : LinkUser[k] = u => link[k].state \in {"none", "revoked"}
    IN  /\ remote[l].state = "none"
        /\ \E s \in Rows : session[s].user = u
        /\ remote' = [remote EXCEPT ![l] = [state |-> "prepared", version |-> 1]]
        /\ \/ /\ free /\ ActiveUser(u) /\ \E s \in Rows : session[s].user = u /\ Usable(s)
              /\ link' = [link EXCEPT ![l] = [state |-> "prepared", version |-> 1]]
           \/ UNCHANGED link
        /\ UNCHANGED <<user, session, signingIn, signingOut, snapshots, upsets, held>>

\* ActivateLink, GetLink and ResolveLink: the answer is applied or used later.
AskIssuer(l) ==
    /\ remote[l].state # "none" /\ link[l].state # "none"
    /\ \/ /\ remote[l].state = "prepared"
          /\ remote' = [remote EXCEPT ![l] = [state |-> "active", version |-> @.version + 1]]
       \/ UNCHANGED remote
    /\ snapshots' = snapshots \cup {Seen(l, remote')}
    /\ UNCHANGED <<user, session, signingIn, signingOut, link, upsets, held>>

\* The link is revoked: at the issuer, which sends an event, or by
\* UpdateFastCASLink, which gets the answer.
RevokeLink(l) ==
    /\ remote[l].state \in {"prepared", "active"}
    /\ remote' = [remote EXCEPT ![l] = [state |-> "revoked", version |-> @.version + 1]]
    /\ snapshots' = snapshots \cup {Seen(l, remote')}
    /\ UNCHANGED <<user, session, signingIn, signingOut, link, upsets, held>>

\* The guard of the update in applyFastCASLink.
Supersedes(f) ==
    /\ link[f.link].state \notin {"none", "revoked"}
    /\ link[f.link].version <= f.version

LinkRows(l) == {s \in Rows : session[s].link = l}

\* applyFastCASLink of an answer or of an event, which may come again: a second
\* delivery changes nothing.
applyFastCASLink(f) ==
    /\ f \in snapshots /\ Supersedes(f)
    /\ link' = [link EXCEPT ![f.link] = [state |-> f.state, version |-> f.version]]
    /\ session' = IF f.state = "revoked" THEN Revoked(LinkRows(f.link)) ELSE session
    /\ UNCHANGED <<user, signingIn, signingOut, remote, snapshots, upsets, held>>

\* loginFastCAS, with the link that the issuer resolved before.
LoginFastCAS(f, c) ==
    /\ f \in snapshots
    /\ link[f.link] = [state |-> "active", version |-> f.version]
    /\ ActiveUser(LinkUser[f.link])
    /\ SignIn(LinkUser[f.link], f.link, c)
    /\ UNCHANGED <<user, signingIn, signingOut, casVars, upsets>>

\* ApplyFastCASLogout of one session at the issuer or of all, and
\* applyFastCASIdentityDisable; a notice applies once.
CasLogout(l) ==
    /\ Upset /\ link[l].state # "none"
    /\ \E sids \in {CasSids} \cup {{c} : c \in CasSids} :
          session' = Revoked({s \in LinkRows(l) : session[s].sid \in sids})
    /\ UNCHANGED <<user, signingIn, signingOut, casVars, held>>

UserSteps(u) ==
    \/ LoginVerifies(u) \/ LoginInserts(u) \/ LoginFastResearch(u)
    \/ CreateUser(u) \/ UpdateUser(u) \/ RevokeUserSessions(u)

SessionSteps(s) ==
    \/ BrowserRefreshes(s) \/ OtherRefreshes(s)
    \/ GraceEnds(s) \/ SessionExpires(s)
    \/ LogoutAuthenticates(s) \/ LogoutRevokes(s)

LinkSteps(l) == PrepareLink(l) \/ AskIssuer(l) \/ RevokeLink(l) \/ CasLogout(l)

IdentityNext ==
    \/ \E u \in Users : UserSteps(u)
    \/ \E s \in Rows : SessionSteps(s)
    \/ \E l \in Links : LinkSteps(l)
    \/ \E f \in snapshots : applyFastCASLink(f) \/ \E c \in CasSids : LoginFastCAS(f, c)

IdentitySpec == IdentityInit /\ [][IdentityNext]_identityVars

-----------------------------------------------------------------------------
(* Properties.                                                              *)

\* Whatever tokens of a family are presented, in whichever order and however
\* often, one row of it at most is active (Refresh, refreshGraceSuccessor).
OneLiveTokenPerFamily ==
    \A s, t \in Rows : Family(s) = Family(t) /\ session[s].status = "active"
                       /\ session[t].status = "active" => s = t

\* Sessions that a FastCAS sign-in started, and those their rotations made, are
\* over once the link's revocation has been applied, in whatever order the
\* issuer's answers and events arrive (applyFastCASLink, loginFastCAS, Refresh).
RevokedLinkHasNoSessions ==
    \A s \in Rows : session[s].status = "active" /\ session[Family(s)].link # NoLink
                    => link[session[Family(s)].link].state # "revoked"

\* Administrators who demote and disable one another leave one who can sign in
\* (UpdateUser).
SomeAdminRemains == \E u \in Users : user[u] = [status |-> "active", role |-> "admin"]

=============================================================================
