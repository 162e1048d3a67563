------------------------------- MODULE Accounts -------------------------------
(***************************************************************************)
(* The life of one account of a workspace: how it is created and activated,*)
(* how its owner signs in with a password, a second factor or the provider *)
(* of the workspace, how passwords are reset, and how administrators and   *)
(* the SCIM client change its status or delete it.  Each action is one     *)
(* statement or one transaction; a handler with several of them is a       *)
(* request that keeps what it has read.                                    *)
(*                                                                         *)
(* Passwords are numbered in the order they are set; 0 is a password that  *)
(* nobody knows.                                                           *)
(***************************************************************************)
EXTENDS Integers, FiniteSets

CONSTANTS
    Procs,         \* requests in flight
    Codes,         \* the recovery codes of an enrolment
    NoCode,        \* a code of the authenticator, which is not one of them
    MaxSessions,   \* bound: sessions that are live at once
    MaxPasswords,  \* bound: passwords ever set
    MaxResets      \* bound: password reset links ever sent

ASSUME CodesAssumption == NoCode \notin Codes
ASSUME BoundsAssumption ==
    MaxSessions \in Nat /\ MaxPasswords \in Nat /\ MaxResets \in Nat

VARIABLES
    account,     \* its row in users
    set,         \* how many passwords were set
    links,       \* which of its invitation and the verification of its address are open
    resets,      \* the rows of password_reset_tokens
    session,     \* the rows of sessions that are neither revoked nor expired
    mfa,         \* its row in user_mfa
    req          \* the requests

vars == <<account, set, links, resets, session, mfa, req>>

Passwords == 0..MaxPasswords
Sessions == 1..MaxSessions
Resets == 1..MaxResets

Statuses == {"INVITED", "ACTIVE", "SUSPENDED", "DEACTIVATED"}

\* address: its email is one that somebody has; linked: to an identity of the provider.
Account == [status: Statuses \cup {"NONE"}, password: Passwords, scim: BOOLEAN,
            deleted: BOOLEAN, address: BOOLEAN, linked: BOOLEAN]

Links == {"invitation", "verification"}

\* stray is not stored: a revocation has failed to end the session, or its sign-in had
\* read the account before the account changed.
Session == [live: BOOLEAN, password: Passwords, stray: BOOLEAN]

\* spent and muddled are not stored: the codes a sign-in was accepted with, and whether
\* two requests have written the codes from one reading, or one has failed to.
Mfa == [state: {"none", "enrolled", "enabled"}, codes: SUBSET Codes,
        spent: SUBSET Codes, muddled: BOOLEAN]

\* password, codes, seen: what the request has read; code: the one it was given.
Request == [pc: {"idle", "codes", "session", "revoke", "forgot", "enrol", "confirm", "disable"},
            password: Passwords, code: Codes \cup {NoCode}, codes: SUBSET Codes,
            seen: SUBSET Resets]

TypeOK ==
    /\ account \in Account
    /\ set \in 0..MaxPasswords
    /\ links \in SUBSET Links
    /\ resets \in [Resets -> {"none", "open", "closed"}]
    /\ session \in [Sessions -> Session]
    /\ mfa \in Mfa
    /\ req \in [Procs -> Request]
    /\ mfa.state = "none" => mfa.codes = {}

-----------------------------------------------------------------------------
NoAccount == [status |-> "NONE", password |-> 0, scim |-> FALSE,
              deleted |-> FALSE, address |-> TRUE, linked |-> FALSE]

NoSession == [live |-> FALSE, password |-> 0, stray |-> FALSE]

NoMfa == [state |-> "none", codes |-> {}, spent |-> {}, muddled |-> FALSE]

NoRequest == [pc |-> "idle", password |-> 0, code |-> NoCode, codes |-> {}, seen |-> {}]

Init ==
    /\ account = NoAccount /\ set = 0
    /\ links = {}
    /\ resets = [r \in Resets |-> "none"]
    /\ session = [s \in Sessions |-> NoSession]
    /\ mfa = NoMfa
    /\ req = [p \in Procs |-> NoRequest]

Is(status) == account.status = status
At(p, pc) == req[p].pc = pc
Finish(p) == req' = [req EXCEPT ![p] = NoRequest]

\* requireSession.
SignedIn == Is("ACTIVE") /\ \E s \in Sessions : session[s].live

Revoked == [s \in Sessions |-> NoSession]

Passed == [s \in Sessions |-> [session[s] EXCEPT !.stray = session[s].live]]

\* Bound: the next password.
NewPassword == {n \in 1..MaxPasswords : n = set + 1}

-----------------------------------------------------------------------------
(* createAdminUser, signup, scimCreateUser, acceptInvitation, verifyEmail *)

CreateInvited ==
    /\ Is("NONE")
    /\ account' = [NoAccount EXCEPT !.status = "INVITED"]
    /\ links' = {"invitation"}
    /\ UNCHANGED <<set, resets, session, mfa, req>>

CreateActive ==
    /\ Is("NONE")
    /\ \E n \in NewPassword :
          set' = n /\ account' = [NoAccount EXCEPT !.status = "ACTIVE", !.password = n]
    /\ UNCHANGED <<links, resets, session, mfa, req>>

Signup ==
    /\ Is("NONE")
    /\ \E n \in NewPassword :
          set' = n /\ account' = [NoAccount EXCEPT !.status = "INVITED", !.password = n]
    /\ links' = {"verification"}
    /\ UNCHANGED <<resets, session, mfa, req>>

ScimCreate(status) ==
    /\ Is("NONE")
    /\ account' = [NoAccount EXCEPT !.status = status, !.scim = TRUE]
    /\ UNCHANGED <<set, links, resets, session, mfa, req>>

\* The transaction that sets the password and activates the account; the session follows.
AcceptInvitation(p) ==
    /\ At(p, "idle")
    /\ "invitation" \in links /\ Is("INVITED")
    /\ \E n \in NewPassword :
          /\ set' = n
          /\ account' = [account EXCEPT !.password = n, !.status = "ACTIVE"]
          /\ req' = [req EXCEPT ![p] = [NoRequest EXCEPT !.pc = "session", !.password = n]]
    /\ links' = links \ {"invitation"}
    /\ UNCHANGED <<resets, session, mfa>>

VerifyEmail ==
    /\ "verification" \in links
    /\ links' = links \ {"verification"}
    /\ account' = IF Is("INVITED") THEN [account EXCEPT !.status = "ACTIVE"] ELSE account
    /\ UNCHANGED <<set, resets, session, mfa, req>>

\* An expired link.
LinkExpires(l) ==
    /\ l \in links /\ links' = links \ {l}
    /\ UNCHANGED <<account, set, resets, session, mfa, req>>

-----------------------------------------------------------------------------
(* login, createSession, resolveOIDCUser *)

\* Mutant: the code stays in the list.
RemainingAll(code) == mfa.codes

\* verifyMFA: what is left of the codes once this one is used.
Remaining(code) == mfa.codes \ {code}

\* One SELECT has the status, the password and the second factor.  A second sign-in that
\* reads the codes before another has written them muddles them.
LoginRead(p, code) ==
    /\ At(p, "idle")
    /\ Is("ACTIVE") /\ account.password # 0
    /\ IF mfa.state = "enabled"
       THEN /\ code \in mfa.codes \cup {NoCode}
            /\ req' = [req EXCEPT ![p] = [NoRequest EXCEPT
                         !.pc = "codes", !.password = account.password,
                         !.code = code, !.codes = Remaining(code)]]
            /\ mfa' = [mfa EXCEPT !.spent = @ \cup ({code} \ {NoCode}),
                                  !.muddled = @ \/ \E q \in Procs : At(q, "codes")]
       ELSE /\ code = NoCode /\ UNCHANGED mfa
            /\ req' = [req EXCEPT ![p] = [NoRequest EXCEPT
                         !.pc = "session", !.password = account.password]]
    /\ UNCHANGED <<account, set, links, resets, session>>

\* Mutant: an upsert, that finds no row to keep to.
SavedUpsert(p) == [mfa EXCEPT !.codes = req[p].codes]

\* The UPDATE of the codes, whatever enrolment they are of by now.
Saved(p) == IF mfa.state = "none" THEN mfa ELSE [mfa EXCEPT !.codes = req[p].codes]

\* Its error is ignored.
SaveCodes(p) ==
    /\ At(p, "codes")
    /\ \/ mfa' = Saved(p)
       \/ mfa' = [mfa EXCEPT !.muddled = TRUE]
    /\ req' = [req EXCEPT ![p].pc = "session"]
    /\ UNCHANGED <<account, set, links, resets, session>>

\* The provider names the account: an ACTIVE one, by its link or its address, or one
\* that is created now.
OidcResolve(p) ==
    /\ At(p, "idle")
    /\ \/ Is("ACTIVE") /\ (account.linked \/ account.address)
       \/ Is("NONE")
    /\ \/ /\ account' = [account EXCEPT !.status = "ACTIVE", !.linked = TRUE]
          /\ req' = [req EXCEPT ![p] = [NoRequest EXCEPT !.pc = "session",
                                                         !.password = account.password]]
       \/ Is("NONE") /\ account' = [account EXCEPT !.status = "ACTIVE"] /\ UNCHANGED req
    /\ UNCHANGED <<set, links, resets, session, mfa>>

\* The INSERT looks at the account no more.
CreateSession(p) ==
    /\ At(p, "session")
    /\ \E s \in Sessions :
          /\ ~session[s].live /\ \A t \in Sessions : t < s => session[t].live
          /\ session' = [session EXCEPT ![s] =
                [live |-> TRUE, password |-> req[p].password,
                 stray |-> ~Is("ACTIVE") \/ req[p].password # account.password]]
    /\ Finish(p)
    /\ UNCHANGED <<account, set, links, resets, mfa>>

\* The request is cancelled or its process dies.
Abandon(p) ==
    /\ ~At(p, "idle") /\ Finish(p)
    /\ session' = IF At(p, "revoke") THEN Passed ELSE session
    /\ mfa' = IF At(p, "codes") THEN [mfa EXCEPT !.muddled = TRUE] ELSE mfa
    /\ UNCHANGED <<account, set, links, resets>>

-----------------------------------------------------------------------------
(* logout, sessionDevices, revokeSessionDevice *)

\* The owner ends it, or it expires.
EndSession(s) ==
    /\ session[s].live
    /\ session' = [session EXCEPT ![s] = NoSession]
    /\ UNCHANGED <<account, set, links, resets, mfa, req>>

EndOthers(s) ==
    /\ session[s].live /\ Is("ACTIVE")
    /\ session' = [Revoked EXCEPT ![s] = session[s]]
    /\ UNCHANGED <<account, set, links, resets, mfa, req>>

-----------------------------------------------------------------------------
(* forgotPassword and resetPassword *)

\* The transaction closes the links it sees open and locks them until it commits.
ForgotRead(p) ==
    /\ At(p, "idle") /\ Is("ACTIVE") /\ account.address
    /\ req' = [req EXCEPT ![p] = [NoRequest EXCEPT
                 !.pc = "forgot", !.seen = {r \in Resets : resets[r] = "open"}]]
    /\ UNCHANGED <<account, set, links, resets, session, mfa>>

Locked(r) == \E p \in Procs : At(p, "forgot") /\ r \in req[p].seen

ForgotCommit(p) ==
    /\ At(p, "forgot")
    /\ \E r \in Resets :
          /\ resets[r] = "none" /\ \A q \in Resets : q < r => resets[q] # "none"
          /\ resets' = [q \in Resets |-> CASE q = r -> "open"
                                           [] q \in req[p].seen -> "closed"
                                           [] OTHER -> resets[q]]
    /\ Finish(p)
    /\ UNCHANGED <<account, set, links, session, mfa>>

\* Mutant: the sessions stay.
ResetSessionsKept == session

ResetSessions == Revoked

\* One transaction, which says that the password was updated whether or not the account
\* is still ACTIVE.
ResetPassword(r) ==
    /\ resets[r] = "open" /\ ~Locked(r)
    /\ resets' = [resets EXCEPT ![r] = "closed"]
    /\ IF Is("ACTIVE")
       THEN \E n \in NewPassword : set' = n /\ account' = [account EXCEPT !.password = n]
       ELSE UNCHANGED <<set, account>>
    /\ session' = ResetSessions
    /\ UNCHANGED <<links, mfa, req>>

ResetExpires(r) ==
    /\ resets[r] = "open" /\ resets' = [resets EXCEPT ![r] = "closed"]
    /\ UNCHANGED <<account, set, links, session, mfa, req>>

-----------------------------------------------------------------------------
(* updateAdminUser, scimUser, scimReplaceUser, scimPatchUser, deleteAdminUser *)

\* The sessions are revoked by a second statement, whose error is ignored.
SetStatus(p, status, address) ==
    /\ At(p, "idle")
    /\ account' = [account EXCEPT !.status = status, !.address = address]
    /\ req' = [req EXCEPT ![p].pc = IF status = "ACTIVE" THEN "idle" ELSE "revoke"]
    /\ UNCHANGED <<set, links, resets, session, mfa>>

AdminUpdate(p, status) == ~Is("NONE") /\ SetStatus(p, status, account.address)

\* A PUT brings an address, of an account that was deleted as well.
ScimUpdate(p, status) ==
    /\ account.scim /\ status \in {"ACTIVE", "DEACTIVATED"}
    /\ SetStatus(p, status, account.address) \/ SetStatus(p, status, TRUE)

Revoke(p) ==
    /\ At(p, "revoke")
    /\ session' \in {Revoked, Passed}
    /\ Finish(p)
    /\ UNCHANGED <<account, set, links, resets, mfa>>

\* One serializable transaction.
DeleteUser ==
    /\ ~account.deleted /\ account.status \in {"DEACTIVATED", "INVITED"}
    /\ account' = [account EXCEPT !.status = "DEACTIVATED", !.password = 0,
                                !.deleted = TRUE, !.address = FALSE]
    /\ session' = Revoked
    /\ links' = {}
    /\ resets' = [r \in Resets |-> IF resets[r] = "open" THEN "closed" ELSE resets[r]]
    /\ UNCHANGED <<set, mfa, req>>

-----------------------------------------------------------------------------
(* mfa, mfaConfirm, mfaDisable *)

\* Each reads the row, and the code it is given holds; it writes in a second statement.
\* Which authenticator secret the row has is left out.
MfaRead(p, pc) ==
    /\ At(p, "idle") /\ SignedIn
    /\ CASE pc = "enrol"   -> mfa.state # "enabled"
         [] pc = "confirm" -> mfa.state # "none"
         [] pc = "disable" -> mfa.state = "enabled"
    /\ req' = [req EXCEPT ![p] = [NoRequest EXCEPT !.pc = pc]]
    /\ UNCHANGED <<account, set, links, resets, session, mfa>>

Enrol(p) ==
    /\ At(p, "enrol") /\ Finish(p)
    /\ mfa' = [state |-> "enrolled", codes |-> Codes, spent |-> {},
               muddled |-> \E q \in Procs : At(q, "codes")]
    /\ UNCHANGED <<account, set, links, resets, session>>

\* Whatever enrolment the row is of by now.
Confirm(p) ==
    /\ At(p, "confirm") /\ Finish(p)
    /\ mfa' = IF mfa.state = "none" THEN mfa ELSE [mfa EXCEPT !.state = "enabled"]
    /\ UNCHANGED <<account, set, links, resets, session>>

Disable(p) ==
    /\ At(p, "disable") /\ Finish(p)
    /\ mfa' = NoMfa
    /\ UNCHANGED <<account, set, links, resets, session>>

-----------------------------------------------------------------------------
Create ==
    \/ CreateInvited \/ CreateActive \/ Signup
    \/ \E status \in {"ACTIVE", "DEACTIVATED"} : ScimCreate(status)

SignIn(p) ==
    \/ AcceptInvitation(p) \/ OidcResolve(p) \/ SaveCodes(p) \/ CreateSession(p) \/ Abandon(p)
    \/ \E code \in Codes \cup {NoCode} : LoginRead(p, code)

Manage(p) ==
    \/ \E status \in Statuses : AdminUpdate(p, status) \/ ScimUpdate(p, status)
    \/ Revoke(p)

SecondFactor(p) ==
    \/ \E pc \in {"enrol", "confirm", "disable"} : MfaRead(p, pc)
    \/ Enrol(p) \/ Confirm(p) \/ Disable(p)

Next ==
    \/ Create \/ VerifyEmail \/ DeleteUser
    \/ \E p \in Procs :
          SignIn(p) \/ Manage(p) \/ SecondFactor(p) \/ ForgotRead(p) \/ ForgotCommit(p)
    \/ \E l \in Links : LinkExpires(l)
    \/ \E s \in Sessions : EndSession(s) \/ EndOthers(s)
    \/ \E r \in Resets : ResetPassword(r) \/ ResetExpires(r)

Spec == Init /\ [][Next]_vars

-----------------------------------------------------------------------------
(* What must hold *)

\* A session outlives neither the password nor the status it was opened under, except
\* while a revocation is on its way, and for the strays: what a failed revocation left,
\* and what a sign-in inserted that had read the account before it changed.
SignedOut ==
    \A s \in Sessions :
        session[s].live /\ ~session[s].stray =>
            \/ session[s].password = account.password /\ Is("ACTIVE")
            \/ \E p \in Procs : At(p, "revoke")

\* A recovery code that opened a session has left the list, or its request is about to
\* take it out, unless two sign-ins overlapped or the list could not be written (login).
SpentIsRemoved ==
    mfa.muddled \/ mfa.spent \cap mfa.codes \subseteq {req[p].code : p \in {q \in Procs : At(q, "codes")}}
===============================================================================
