---------------------------- MODULE AccountsProofs ----------------------------
(* Theorems about Accounts, for any requests, recovery codes and bounds. *)
EXTENDS Accounts, TLAPS

USE CodesAssumption, BoundsAssumption DEF CodesAssumption, BoundsAssumption

-----------------------------------------------------------------------------
(* The types of the records that the actions write *)

LEMMA EmptyRecords ==
  /\ NoAccount \in Account /\ NoSession \in Session /\ NoMfa \in Mfa /\ NoRequest \in Request
  /\ NoRequest.pc = "idle" /\ ~NoSession.live /\ NoMfa.state = "none" /\ NoMfa.codes = {}
  /\ NoMfa.spent = {} /\ ~NoMfa.muddled
BY DEF NoAccount, Account, Statuses, Passwords, NoSession, Session, NoMfa, Mfa, NoRequest, Request

LEMMA AccountTypes ==
  /\ \A row \in Account, status \in Statuses : [row EXCEPT !.status = status] \in Account
  /\ \A row \in Account, n \in Passwords : [row EXCEPT !.password = n] \in Account
  /\ \A row \in Account, status \in Statuses, n \in Passwords :
        /\ [row EXCEPT !.status = status, !.password = n] \in Account
        /\ [row EXCEPT !.password = n, !.status = status] \in Account
  /\ \A row \in Account, status \in Statuses, b \in BOOLEAN :
        /\ [row EXCEPT !.status = status, !.scim = b] \in Account
        /\ [row EXCEPT !.status = status, !.address = b] \in Account
        /\ [row EXCEPT !.status = status, !.linked = b] \in Account
  /\ \A row \in Account :
        [row EXCEPT !.status = "DEACTIVATED", !.password = 0, !.deleted = TRUE, !.address = FALSE]
           \in Account
<1>1. \A row \in Account, status \in Statuses : [row EXCEPT !.status = status] \in Account
  BY DEF Account
<1>2. \A row \in Account, n \in Passwords : [row EXCEPT !.password = n] \in Account
  BY DEF Account
<1>3. \A row \in Account, status \in Statuses, n \in Passwords :
        /\ [row EXCEPT !.status = status, !.password = n] \in Account
        /\ [row EXCEPT !.password = n, !.status = status] \in Account
  BY DEF Account
<1>4. \A row \in Account, status \in Statuses, b \in BOOLEAN :
        /\ [row EXCEPT !.status = status, !.scim = b] \in Account
        /\ [row EXCEPT !.status = status, !.address = b] \in Account
        /\ [row EXCEPT !.status = status, !.linked = b] \in Account
  BY DEF Account
<1>5. \A row \in Account :
        [row EXCEPT !.status = "DEACTIVATED", !.password = 0, !.deleted = TRUE, !.address = FALSE]
           \in Account
  <2>1. \A row \in Account, status \in Statuses, n \in Passwords, b \in BOOLEAN, c \in BOOLEAN :
           [row EXCEPT !.status = status, !.password = n, !.deleted = b, !.address = c] \in Account
    BY DEF Account
  <2>2. "DEACTIVATED" \in Statuses /\ 0 \in Passwords
    BY DEF Statuses, Passwords
  <2> QED BY <2>1, <2>2
<1> QED BY <1>1, <1>2, <1>3, <1>4, <1>5

LEMMA RequestTypes ==
  /\ \A r \in Request, n \in Passwords : [r EXCEPT !.pc = "session", !.password = n] \in Request
  /\ \A r \in Request, n \in Passwords, code \in Codes \cup {NoCode}, codes \in SUBSET Codes :
        [r EXCEPT !.pc = "codes", !.password = n, !.code = code, !.codes = codes] \in Request
BY DEF Request

LEMMA MfaTypes ==
  /\ \A row \in Mfa, spent \in SUBSET Codes, b \in BOOLEAN :
        [row EXCEPT !.spent = spent, !.muddled = b] \in Mfa
  /\ \A row \in Mfa, codes \in SUBSET Codes : [row EXCEPT !.codes = codes] \in Mfa
  /\ \A row \in Mfa : [row EXCEPT !.muddled = TRUE] \in Mfa
  /\ \A row \in Mfa : [row EXCEPT !.state = "enabled"] \in Mfa
  /\ \A b \in BOOLEAN :
        [state |-> "enrolled", codes |-> Codes, spent |-> {}, muddled |-> b] \in Mfa
BY DEF Mfa

LEMMA SessionTypes ==
  /\ Revoked \in [Sessions -> Session]
  /\ TypeOK => Passed \in [Sessions -> Session]
BY EmptyRecords DEF Revoked, Passed, TypeOK, Session

-----------------------------------------------------------------------------
(* Type correctness *)

LEMMA NewPasswordType == \A n \in NewPassword : n \in Passwords /\ n \in 0..MaxPasswords
BY DEF NewPassword, Passwords

LEMMA CreateType == TypeOK /\ Create => TypeOK'
<1> SUFFICES ASSUME TypeOK, Create PROVE TypeOK'
  OBVIOUS
<1>1. \A n \in NewPassword : n \in Passwords /\ n \in 0..MaxPasswords
  BY NewPasswordType
<1>2. 0 \in Passwords /\ {"INVITED", "ACTIVE", "DEACTIVATED"} \subseteq Statuses
  BY DEF Passwords, Statuses
<1>3. CASE CreateInvited
  <2>1. account' \in Account /\ links' \in SUBSET Links
    BY <1>2, <1>3, EmptyRecords, AccountTypes DEF CreateInvited, Links
  <2> QED BY <1>3, <2>1 DEF CreateInvited, TypeOK
<1>4. CASE CreateActive
  <2>0. PICK n \in NewPassword :
           set' = n /\ account' = [NoAccount EXCEPT !.status = "ACTIVE", !.password = n]
    BY <1>4 DEF CreateActive
  <2>1. account' \in Account /\ set' \in 0..MaxPasswords
    BY <1>1, <1>2, <2>0, EmptyRecords, AccountTypes
  <2> QED BY <1>4, <2>1 DEF CreateActive, TypeOK
<1>5. CASE Signup
  <2>0. PICK n \in NewPassword :
           set' = n /\ account' = [NoAccount EXCEPT !.status = "INVITED", !.password = n]
    BY <1>5 DEF Signup
  <2>1. account' \in Account /\ set' \in 0..MaxPasswords
    BY <1>1, <1>2, <2>0, EmptyRecords, AccountTypes
  <2>2. links' \in SUBSET Links
    BY <1>5 DEF Signup, Links
  <2> QED BY <1>5, <2>1, <2>2 DEF Signup, TypeOK
<1>6. ASSUME NEW status \in {"ACTIVE", "DEACTIVATED"}, ScimCreate(status) PROVE TypeOK'
  <2>1. account' \in Account
    BY <1>2, <1>6, EmptyRecords, AccountTypes DEF ScimCreate
  <2> QED BY <1>6, <2>1 DEF ScimCreate, TypeOK
<1> QED BY <1>3, <1>4, <1>5, <1>6 DEF Create

LEMMA SignInType ==
  ASSUME TypeOK, NEW p \in Procs, SignIn(p)
  PROVE  TypeOK'
<1>0. /\ account.password \in Passwords /\ req[p] \in Request /\ mfa.codes \in SUBSET Codes
      /\ mfa.spent \in SUBSET Codes /\ mfa.muddled \in BOOLEAN /\ req[p].codes \in SUBSET Codes
      /\ account \in Account /\ mfa \in Mfa /\ "ACTIVE" \in Statuses
  BY DEF TypeOK, Account, Mfa, Request, Statuses
<1>1. CASE AcceptInvitation(p)
  <2>1. PICK n \in NewPassword :
           /\ set' = n /\ account' = [account EXCEPT !.password = n, !.status = "ACTIVE"]
           /\ req' = [req EXCEPT ![p] = [NoRequest EXCEPT !.pc = "session", !.password = n]]
    BY <1>1 DEF AcceptInvitation
  <2>2. n \in Passwords /\ n \in 0..MaxPasswords
    BY NewPasswordType
  <2>3. account' \in Account
    BY <1>0, <2>1, <2>2, AccountTypes
  <2>4. [NoRequest EXCEPT !.pc = "session", !.password = n] \in Request
    BY <2>2, EmptyRecords, RequestTypes
  <2>5. req' \in [Procs -> Request]
    BY <2>1, <2>4 DEF TypeOK
  <2>6. links' \in SUBSET Links /\ UNCHANGED <<resets, session, mfa>>
    BY <1>1 DEF AcceptInvitation, TypeOK
  <2> QED BY <2>1, <2>2, <2>3, <2>5, <2>6 DEF TypeOK
<1>2. CASE OidcResolve(p)
  <2>a. /\ [account EXCEPT !.status = "ACTIVE", !.linked = TRUE] \in Account
        /\ [account EXCEPT !.status = "ACTIVE"] \in Account
    BY <1>0, AccountTypes
  <2>1. account' \in Account
    BY <1>2, <2>a DEF OidcResolve
  <2>b. [NoRequest EXCEPT !.pc = "session", !.password = account.password] \in Request
    BY <1>0, EmptyRecords, RequestTypes
  <2>2. req' \in [Procs -> Request]
    BY <1>2, <2>b DEF OidcResolve, TypeOK
  <2> QED BY <1>2, <2>1, <2>2 DEF OidcResolve, TypeOK
<1>3. CASE SaveCodes(p)
  <2>a. ASSUME mfa' = Saved(p) /\ mfa.state # "none"
        PROVE  mfa' \in Mfa /\ (mfa'.state = "none" => mfa'.codes = {})
    <3>1. mfa' = [mfa EXCEPT !.codes = req[p].codes]
      BY <2>a DEF Saved
    <3>2. mfa' \in Mfa /\ mfa'.state = mfa.state
      BY <1>0, <3>1, MfaTypes DEF Mfa
    <3> QED BY <2>a, <3>2
  <2>b. ASSUME mfa' = Saved(p) /\ mfa.state = "none"
        PROVE  mfa' \in Mfa /\ (mfa'.state = "none" => mfa'.codes = {})
    BY <1>0, <2>b DEF Saved, TypeOK
  <2>c. ASSUME mfa' = [mfa EXCEPT !.muddled = TRUE]
        PROVE  mfa' \in Mfa /\ (mfa'.state = "none" => mfa'.codes = {})
    <3>1. mfa' \in Mfa /\ mfa'.state = mfa.state /\ mfa'.codes = mfa.codes
      BY <1>0, <2>c, MfaTypes DEF Mfa
    <3> QED BY <3>1 DEF TypeOK
  <2>1. mfa' \in Mfa /\ (mfa'.state = "none" => mfa'.codes = {})
    BY <1>3, <2>a, <2>b, <2>c DEF SaveCodes
  <2>2. req' \in [Procs -> Request]
    <3>1. [req[p] EXCEPT !.pc = "session"] \in Request
      BY <1>0 DEF Request
    <3> QED BY <1>3, <3>1 DEF SaveCodes, TypeOK
  <2> QED BY <1>3, <2>1, <2>2 DEF SaveCodes, TypeOK
<1>4. CASE CreateSession(p)
  <2>1. PICK s \in Sessions :
           session' = [session EXCEPT ![s] =
                         [live |-> TRUE, password |-> req[p].password,
                          stray |-> ~Is("ACTIVE") \/ req[p].password # account.password]]
    BY <1>4 DEF CreateSession
  <2>2. [live |-> TRUE, password |-> req[p].password,
         stray |-> ~Is("ACTIVE") \/ req[p].password # account.password] \in Session
    BY <1>0 DEF Session, Request, Is
  <2>3. session' \in [Sessions -> Session]
    BY <2>1, <2>2, EmptyRecords, SessionTypes DEF TypeOK
  <2>4. req' \in [Procs -> Request]
    BY <1>4, EmptyRecords, RequestTypes DEF CreateSession, Finish, TypeOK
  <2> QED BY <1>4, <2>3, <2>4 DEF CreateSession, TypeOK
<1>5. CASE Abandon(p)
  <2>1. mfa' \in Mfa /\ (mfa'.state = "none" => mfa'.codes = {})
    BY <1>0, <1>5, EmptyRecords, MfaTypes DEF Abandon, TypeOK, Mfa
  <2>2. session' \in [Sessions -> Session]
    BY <1>5, SessionTypes, EmptyRecords DEF Abandon, TypeOK
  <2>3. req' \in [Procs -> Request]
    BY <1>5, EmptyRecords, RequestTypes DEF Abandon, Finish, TypeOK
  <2> QED BY <1>5, <2>1, <2>2, <2>3 DEF Abandon, TypeOK
<1>6. ASSUME NEW code \in Codes \cup {NoCode}, LoginRead(p, code) PROVE TypeOK'
  <2>1. mfa' \in Mfa /\ (mfa'.state = "none" => mfa'.codes = {})
    <3>1. CASE mfa' = mfa
      BY <1>0, <3>1 DEF TypeOK
    <3>2. CASE mfa.state = "enabled"
      <4>1. mfa' = [mfa EXCEPT !.spent = @ \cup ({code} \ {NoCode}),
                               !.muddled = @ \/ \E q \in Procs : At(q, "codes")]
        BY <1>6, <3>2 DEF LoginRead
      <4>2. mfa.spent \cup ({code} \ {NoCode}) \in SUBSET Codes
        BY <1>0
      <4>3. mfa' = [mfa EXCEPT !.spent = mfa.spent \cup ({code} \ {NoCode}),
                               !.muddled = mfa.muddled \/ \E q \in Procs : At(q, "codes")]
        BY <1>0, <4>1 DEF Mfa
      <4>4. (mfa.muddled \/ \E q \in Procs : At(q, "codes")) \in BOOLEAN
        BY <1>0 DEF At
      <4>5. mfa' \in Mfa
        BY <1>0, <4>2, <4>3, <4>4, EmptyRecords, MfaTypes
      <4>6. mfa'.state = "enabled"
        BY <1>0, <3>2, <4>3 DEF Mfa
      <4> QED BY <4>5, <4>6
    <3> QED BY <1>6, <3>1, <3>2 DEF LoginRead
  <2>2. req' \in [Procs -> Request]
    <3>1. Remaining(code) \in SUBSET Codes
      BY <1>0 DEF Remaining
    <3>2. [NoRequest EXCEPT !.pc = "codes", !.password = account.password, !.code = code,
                            !.codes = Remaining(code)] \in Request
      BY <1>0, <3>1, EmptyRecords, RequestTypes
    <3>3. [NoRequest EXCEPT !.pc = "session", !.password = account.password] \in Request
      BY <1>0, EmptyRecords, RequestTypes
    <3> QED BY <1>6, <3>2, <3>3 DEF LoginRead, TypeOK
  <2> QED BY <1>6, <2>1, <2>2 DEF LoginRead, TypeOK
<1> QED BY <1>1, <1>2, <1>3, <1>4, <1>5, <1>6 DEF SignIn

LEMMA ManageType ==
  ASSUME TypeOK, NEW p \in Procs, Manage(p)
  PROVE  TypeOK'
<1>0. account \in Account /\ account.address \in BOOLEAN /\ req[p] \in Request
  BY DEF TypeOK, Account
<1>1. ASSUME NEW status \in Statuses, NEW address \in BOOLEAN, SetStatus(p, status, address)
      PROVE  TypeOK'
  <2>1. account' \in Account
    BY <1>0, <1>1, AccountTypes, EmptyRecords DEF SetStatus
  <2>2. req' \in [Procs -> Request]
    <3>1. [req[p] EXCEPT !.pc = "idle"] \in Request /\ [req[p] EXCEPT !.pc = "revoke"] \in Request
      BY <1>0 DEF Request
    <3> QED BY <1>1, <3>1 DEF SetStatus, TypeOK
  <2> QED BY <1>1, <2>1, <2>2 DEF SetStatus, TypeOK
<1>2. ASSUME NEW status \in Statuses, AdminUpdate(p, status) \/ ScimUpdate(p, status) PROVE TypeOK'
  BY <1>0, <1>1, <1>2 DEF AdminUpdate, ScimUpdate
<1>3. CASE Revoke(p)
  <2>1. session' \in [Sessions -> Session]
    BY <1>3, SessionTypes, EmptyRecords DEF Revoke
  <2>2. req' \in [Procs -> Request]
    BY <1>3, EmptyRecords, RequestTypes DEF Revoke, Finish, TypeOK
  <2> QED BY <1>3, <2>1, <2>2 DEF Revoke, TypeOK
<1> QED BY <1>2, <1>3 DEF Manage

LEMMA SecondFactorType ==
  ASSUME TypeOK, NEW p \in Procs, SecondFactor(p)
  PROVE  TypeOK'
<1>1. ASSUME NEW pc \in {"enrol", "confirm", "disable"}, MfaRead(p, pc) PROVE TypeOK'
  <2>1. [NoRequest EXCEPT !.pc = pc] \in Request
    BY EmptyRecords DEF Request
  <2>2. req' \in [Procs -> Request]
    BY <1>1, <2>1, EmptyRecords, RequestTypes DEF MfaRead, TypeOK
  <2> QED BY <1>1, <2>2 DEF MfaRead, TypeOK
<1>2. ASSUME Finish(p) PROVE req' \in [Procs -> Request]
  BY <1>2, EmptyRecords, RequestTypes DEF Finish, TypeOK
<1>3. CASE Enrol(p)
  <2>1. PICK b \in BOOLEAN :
           mfa' = [state |-> "enrolled", codes |-> Codes, spent |-> {}, muddled |-> b]
    BY <1>3 DEF Enrol, At
  <2>2. mfa' \in Mfa /\ mfa'.state # "none"
    BY <2>1, EmptyRecords, MfaTypes DEF Mfa
  <2> QED BY <1>2, <1>3, <2>2 DEF Enrol, TypeOK
<1>4. CASE Confirm(p)
  <2>1. mfa' \in Mfa /\ (mfa'.state = "none" => mfa'.codes = {})
    BY <1>4, EmptyRecords, MfaTypes DEF Confirm, TypeOK, Mfa
  <2> QED BY <1>2, <1>4, <2>1 DEF Confirm, TypeOK
<1>5. CASE Disable(p)
  BY <1>2, <1>5, EmptyRecords DEF Disable, TypeOK
<1> QED BY <1>1, <1>3, <1>4, <1>5 DEF SecondFactor

LEMMA LinkType ==
  ASSUME TypeOK, NEW p \in Procs, ForgotRead(p) \/ ForgotCommit(p)
  PROVE  TypeOK'
<1>1. CASE ForgotRead(p)
  <2>1. [NoRequest EXCEPT !.pc = "forgot", !.seen = {r \in Resets : resets[r] = "open"}] \in Request
    BY EmptyRecords DEF Request
  <2>2. req' \in [Procs -> Request]
    BY <1>1, <2>1, EmptyRecords, RequestTypes DEF ForgotRead, TypeOK
  <2> QED BY <1>1, <2>2 DEF ForgotRead, TypeOK
<1>2. CASE ForgotCommit(p)
  <2>1. req' \in [Procs -> Request]
    BY <1>2, EmptyRecords, RequestTypes DEF ForgotCommit, Finish, TypeOK
  <2>2. PICK r \in Resets :
           resets' = [q \in Resets |-> CASE q = r -> "open"
                                         [] q \in req[p].seen -> "closed"
                                         [] OTHER -> resets[q]]
    BY <1>2 DEF ForgotCommit
  <2>3. resets' \in [Resets -> {"none", "open", "closed"}]
    BY <2>2 DEF TypeOK
  <2> QED BY <1>2, <2>1, <2>3 DEF ForgotCommit, TypeOK
<1> QED BY <1>1, <1>2

LEMMA OtherType ==
  ASSUME TypeOK,
         \/ VerifyEmail \/ DeleteUser
         \/ \E l \in Links : LinkExpires(l)
         \/ \E s \in Sessions : EndSession(s) \/ EndOthers(s)
         \/ \E r \in Resets : ResetPassword(r) \/ ResetExpires(r)
  PROVE  TypeOK'
<1>0. account \in Account /\ {"ACTIVE", "DEACTIVATED"} \subseteq Statuses /\ 0 \in Passwords
  BY DEF TypeOK, Statuses, Passwords
<1>1. CASE VerifyEmail
  <2>1. account' \in Account
    BY <1>0, <1>1, EmptyRecords, AccountTypes DEF VerifyEmail
  <2> QED BY <1>1, <2>1 DEF VerifyEmail, TypeOK
<1>2. CASE DeleteUser
  <2>1. account' \in Account
    BY <1>0, <1>2, AccountTypes DEF DeleteUser
  <2>2. resets' \in [Resets -> {"none", "open", "closed"}]
    BY <1>2 DEF DeleteUser, TypeOK
  <2>3. session' \in [Sessions -> Session] /\ links' \in SUBSET Links /\ UNCHANGED <<set, mfa, req>>
    BY <1>2, SessionTypes DEF DeleteUser
  <2> QED BY <2>1, <2>2, <2>3 DEF TypeOK
<1>3. ASSUME NEW l \in Links, LinkExpires(l) PROVE TypeOK'
  BY <1>3 DEF LinkExpires, TypeOK
<1>4. ASSUME NEW s \in Sessions, EndSession(s) \/ EndOthers(s) PROVE TypeOK'
  <2>1. session' \in [Sessions -> Session]
    BY <1>4, EmptyRecords, SessionTypes DEF EndSession, EndOthers, TypeOK
  <2> QED BY <1>4, <2>1 DEF EndSession, EndOthers, TypeOK
<1>5. ASSUME NEW r \in Resets, ResetPassword(r) PROVE TypeOK'
  <2>1. \A n \in NewPassword : n \in Passwords /\ n \in 0..MaxPasswords
    BY NewPasswordType
  <2>2. account' \in Account /\ set' \in 0..MaxPasswords
    <3>1. ASSUME NEW n \in NewPassword, set' = n, account' = [account EXCEPT !.password = n]
          PROVE  account' \in Account /\ set' \in 0..MaxPasswords
      BY <1>0, <2>1, <3>1, AccountTypes
    <3> QED BY <1>5, <3>1 DEF ResetPassword, TypeOK
  <2>3. session' \in [Sessions -> Session] /\ UNCHANGED <<links, mfa, req>>
    BY <1>5, SessionTypes DEF ResetPassword, ResetSessions
  <2>4. resets' \in [Resets -> {"none", "open", "closed"}]
    BY <1>5 DEF ResetPassword, TypeOK
  <2> QED BY <2>2, <2>3, <2>4 DEF TypeOK
<1>6. ASSUME NEW r \in Resets, ResetExpires(r) PROVE TypeOK'
  BY <1>6 DEF ResetExpires, TypeOK
<1> QED BY <1>1, <1>2, <1>3, <1>4, <1>5, <1>6

LEMMA TypeStep == TypeOK /\ [Next]_vars => TypeOK'
<1>1. TypeOK /\ UNCHANGED vars => TypeOK'
  BY DEF TypeOK, vars
<1> QED BY <1>1, CreateType, SignInType, ManageType, SecondFactorType, LinkType, OtherType DEF Next

-----------------------------------------------------------------------------
(* Sessions *)

\* A live session that a revocation must reach.
Due(s) == session[s].live /\ ~session[s].stray

\* A step that opens no session, finishes no revocation and changes the password or the
\* status of no account whose sessions it leaves alone.
LEMMA SessionsKept ==
  ASSUME SignedOut,
         \A s \in Sessions : Due(s)' => Due(s) /\ session'[s].password = session[s].password,
         \A p \in Procs : At(p, "revoke") => At(p, "revoke")',
         \/ account'.password = account.password /\ (Is("ACTIVE") => Is("ACTIVE")')
         \/ ~Is("ACTIVE")
         \/ \E p \in Procs : At(p, "revoke")'
         \/ \A s \in Sessions : ~Due(s)'
  PROVE  SignedOut'
BY DEF SignedOut, Due, Is

LEMMA SessionStep == TypeOK /\ SignedOut /\ [Next]_vars => SignedOut'
<1> SUFFICES ASSUME TypeOK, SignedOut, [Next]_vars PROVE SignedOut'
  OBVIOUS
<1>e. /\ ~NoSession.live /\ NoRequest.pc = "idle"
      /\ \A s \in Sessions : ~Revoked[s].live
      /\ \A s \in Sessions : Passed[s].live => Passed[s].stray
  BY DEF NoSession, NoRequest, Revoked, Passed, TypeOK, Session
<1>0. account \in Account /\ \A p \in Procs : req[p] \in Request
  BY DEF TypeOK
<1>1. CASE UNCHANGED vars
  BY <1>1 DEF vars, SignedOut, Is, At
<1>2. CASE Create \/ VerifyEmail \/ (\E l \in Links : LinkExpires(l))
  <2>1. UNCHANGED <<session, req>> /\ (account' = account \/ ~Is("ACTIVE"))
    BY <1>2 DEF Create, CreateInvited, CreateActive, Signup, ScimCreate, VerifyEmail,
                LinkExpires, Is
  <2>2. \A s \in Sessions : Due(s)' => Due(s) /\ session'[s].password = session[s].password
    BY <2>1 DEF Due
  <2>3. \A p \in Procs : At(p, "revoke") => At(p, "revoke")'
    BY <2>1 DEF At
  <2> QED BY <2>1, <2>2, <2>3, SessionsKept DEF Is
<1>3. CASE DeleteUser \/ \E r \in Resets : ResetPassword(r)
  <2>1. session' = Revoked /\ req' = req
    BY <1>3 DEF DeleteUser, ResetPassword, ResetSessions
  <2> QED BY <1>e, <2>1 DEF SignedOut
<1>4. CASE \E r \in Resets : ResetExpires(r)
  BY <1>4 DEF ResetExpires, SignedOut, Is, At
<1>5. ASSUME NEW s \in Sessions, EndSession(s) \/ EndOthers(s) PROVE SignedOut'
  <2>1. UNCHANGED <<account, req>>
    BY <1>5 DEF EndSession, EndOthers
  <2>2. \A t \in Sessions : session'[t] = session[t] \/ ~session'[t].live
    BY <1>e, <1>5 DEF EndSession, EndOthers, TypeOK, Revoked
  <2> QED BY <2>1, <2>2 DEF SignedOut, Is, At
<1>6. ASSUME NEW p \in Procs, SignIn(p) PROVE SignedOut'
  <2>1. CASE AcceptInvitation(p) \/ OidcResolve(p)
    <3>1. session' = session /\ At(p, "idle") /\ \A q \in Procs : q # p => req'[q] = req[q]
      BY <2>1 DEF AcceptInvitation, OidcResolve, TypeOK
    <3>2. ~Is("ACTIVE") \/ (account'.password = account.password /\ Is("ACTIVE")')
      BY <1>0, <2>1 DEF AcceptInvitation, OidcResolve, Is, Account
    <3>3. \A q \in Procs : At(q, "revoke") => At(q, "revoke")'
      BY <3>1 DEF At
    <3>4. \A s \in Sessions : Due(s)' => Due(s) /\ session'[s].password = session[s].password
      BY <3>1 DEF Due
    <3> QED BY <3>2, <3>3, <3>4, SessionsKept
  <2>2. CASE SaveCodes(p) \/ \E code \in Codes \cup {NoCode} : LoginRead(p, code)
    <3>1. UNCHANGED <<session, account>> /\ \A q \in Procs : q # p => req'[q] = req[q]
      BY <2>2 DEF SaveCodes, LoginRead, TypeOK
    <3>2. ~At(p, "revoke")
      BY <2>2 DEF SaveCodes, LoginRead, At
    <3> QED BY <3>1, <3>2 DEF SignedOut, At, Is
  <2>3. CASE CreateSession(p)
    <3>1. PICK s \in Sessions :
             session' = [session EXCEPT ![s] =
                           [live |-> TRUE, password |-> req[p].password,
                            stray |-> ~Is("ACTIVE") \/ req[p].password # account.password]]
      BY <2>3 DEF CreateSession
    <3>2. /\ account' = account /\ At(p, "session")
          /\ \A q \in Procs : q # p => req'[q] = req[q]
      BY <2>3 DEF CreateSession, Finish, TypeOK
    <3>3. /\ \A t \in Sessions : t # s => session'[t] = session[t]
          /\ ~session'[s].stray => Is("ACTIVE") /\ session'[s].password = account.password
      BY <3>1 DEF TypeOK
    <3> QED BY <3>2, <3>3 DEF SignedOut, At, Is
  <2>4. CASE Abandon(p)
    <3>1. CASE At(p, "revoke")
      <4>1. session' = Passed
        BY <2>4, <3>1 DEF Abandon
      <4> QED BY <1>e, <4>1 DEF SignedOut
    <3>2. CASE ~At(p, "revoke")
      <4>1. UNCHANGED <<session, account>> /\ \A q \in Procs : q # p => req'[q] = req[q]
        BY <2>4, <3>2 DEF Abandon, Finish, TypeOK
      <4> QED BY <3>2, <4>1 DEF SignedOut, At, Is
    <3> QED BY <3>1, <3>2
  <2> QED BY <1>6, <2>1, <2>2, <2>3, <2>4 DEF SignIn
<1>7. ASSUME NEW p \in Procs, Manage(p) PROVE SignedOut'
  <2>1. CASE Revoke(p)
    BY <1>e, <2>1 DEF Revoke, SignedOut
  <2>2. ASSUME NEW status \in Statuses, NEW address, SetStatus(p, status, address) PROVE SignedOut'
    <3>1. /\ session' = session /\ At(p, "idle")
          /\ \A q \in Procs : q # p => req'[q] = req[q]
          /\ status # "ACTIVE" => req'[p].pc = "revoke"
      BY <1>0, <2>2 DEF SetStatus, TypeOK, Request
    <3>2. account'.status = status /\ account'.password = account.password
      BY <1>0, <2>2 DEF SetStatus, Account
    <3>3. \A q \in Procs : At(q, "revoke") => At(q, "revoke")'
      BY <3>1 DEF At
    <3>4. \A s \in Sessions : Due(s)' => Due(s) /\ session'[s].password = session[s].password
      BY <3>1 DEF Due
    <3>5. (account'.password = account.password /\ Is("ACTIVE")') \/ At(p, "revoke")'
      BY <3>1, <3>2 DEF At, Is
    <3> QED BY <3>3, <3>4, <3>5, SessionsKept
  <2> QED BY <1>7, <2>1, <2>2 DEF Manage, AdminUpdate, ScimUpdate
<1>8. ASSUME NEW p \in Procs, SecondFactor(p) \/ ForgotRead(p) \/ ForgotCommit(p) PROVE SignedOut'
  <2>1. UNCHANGED <<session, account>> /\ \A q \in Procs : q # p => req'[q] = req[q]
    BY <1>8 DEF SecondFactor, MfaRead, Enrol, Confirm, Disable, ForgotRead, ForgotCommit, Finish,
                TypeOK
  <2>2. ~At(p, "revoke")
    BY <1>8 DEF SecondFactor, MfaRead, Enrol, Confirm, Disable, ForgotRead, ForgotCommit, At
  <2> QED BY <2>1, <2>2 DEF SignedOut, At, Is
<1> QED BY <1>1, <1>2, <1>3, <1>4, <1>5, <1>6, <1>7, <1>8 DEF Next

-----------------------------------------------------------------------------
(* Recovery codes *)

\* One sign-in at most is about to write the list ...
OneList ==
    mfa.state # "none" /\ ~mfa.muddled =>
       \A p \in Procs, q \in Procs : At(p, "codes") /\ At(q, "codes") => p = q

\* ... and what it writes has none of the codes that were spent.
ListIsClean ==
    mfa.state # "none" /\ ~mfa.muddled =>
       \A p \in Procs : At(p, "codes") => mfa.spent \cap req[p].codes = {}

CodesInv == SpentIsRemoved /\ OneList /\ ListIsClean

\* A step that leaves the row alone and lets no sign-in pass.
LEMMA CodesKept ==
  ASSUME CodesInv, mfa' = mfa,
         \A p \in Procs : At(p, "codes") <=> At(p, "codes")',
         \A p \in Procs : At(p, "codes") => req'[p] = req[p]
  PROVE  CodesInv'
BY DEF CodesInv, SpentIsRemoved, OneList, ListIsClean

LEMMA CodesStep == TypeOK /\ CodesInv /\ [Next]_vars => CodesInv'
<1> SUFFICES ASSUME TypeOK, CodesInv, [Next]_vars PROVE CodesInv'
  OBVIOUS
<1>0. /\ mfa \in Mfa /\ (mfa.state = "none" => mfa.codes = {})
      /\ \A p \in Procs : req[p] \in Request
  BY DEF TypeOK
<1>1. ASSUME UNCHANGED <<mfa, req>> PROVE CodesInv'
  <2>1. \A p \in Procs : At(p, "codes") <=> At(p, "codes")'
    BY <1>1 DEF At
  <2> QED BY <1>1, <2>1, CodesKept
<1>2. ASSUME NEW p \in Procs, mfa' = mfa, ~At(p, "codes"), ~At(p, "codes")',
             \A q \in Procs : q # p => req'[q] = req[q]
      PROVE  CodesInv'
  <2>1. \A q \in Procs : At(q, "codes") <=> At(q, "codes")'
    BY <1>2 DEF At
  <2>2. \A q \in Procs : At(q, "codes") => req'[q] = req[q]
    BY <1>2 DEF At
  <2> QED BY <1>2, <2>1, <2>2, CodesKept
<1>3. ASSUME NEW p \in Procs, NEW code \in Codes \cup {NoCode}, LoginRead(p, code) PROVE CodesInv'
  <2>1. CASE mfa.state # "enabled"
    <3>1. /\ mfa' = mfa /\ At(p, "idle") /\ \A q \in Procs : q # p => req'[q] = req[q]
          /\ req'[p].pc = "session"
      BY <1>3, <2>1 DEF LoginRead, TypeOK, NoRequest
    <3> QED BY <1>2, <3>1 DEF At
  <2>2. CASE mfa.state = "enabled"
    <3>1. /\ mfa'.state = "enabled" /\ mfa'.codes = mfa.codes
          /\ mfa'.spent = mfa.spent \cup ({code} \ {NoCode})
          /\ ~mfa'.muddled => ~mfa.muddled /\ \A q \in Procs : ~At(q, "codes")
      BY <1>0, <1>3, <2>2 DEF LoginRead, Mfa
    <3>2. /\ \A q \in Procs : q # p => req'[q] = req[q]
          /\ req'[p].pc = "codes" /\ req'[p].code = code /\ req'[p].codes = mfa.codes \ {code}
      <4>1. req' = [req EXCEPT ![p] = [NoRequest EXCEPT
                      !.pc = "codes", !.password = account.password,
                      !.code = code, !.codes = Remaining(code)]]
        BY <1>3, <2>2 DEF LoginRead
      <4>2. /\ \A q \in Procs : q # p => req'[q] = req[q]
            /\ req'[p] = [NoRequest EXCEPT !.pc = "codes", !.password = account.password,
                                          !.code = code, !.codes = Remaining(code)]
        BY <4>1 DEF TypeOK
      <4>3. NoRequest = [pc |-> "idle", password |-> 0, code |-> NoCode, codes |-> {}, seen |-> {}]
        BY DEF NoRequest
      <4> QED BY <4>2, <4>3 DEF Remaining
    <3>3. CASE ~mfa'.muddled
      <4>1. \A q \in Procs : At(q, "codes")' => q = p
        BY <3>1, <3>2, <3>3 DEF At
      <4>2. mfa.spent \cap mfa.codes = {}
        BY <3>1, <3>3 DEF CodesInv, SpentIsRemoved
      <4>3. mfa'.spent \cap req'[p].codes = {}
        BY <3>1, <3>2, <4>2
      <4>4. mfa'.spent \cap mfa'.codes \subseteq {code}
        BY <3>1, <4>2
      <4>5. code \in {req'[q].code : q \in {q \in Procs : At(q, "codes")'}}
        BY <3>2 DEF At
      <4> QED BY <4>1, <4>3, <4>4, <4>5 DEF CodesInv, SpentIsRemoved, OneList, ListIsClean
    <3>4. CASE mfa'.muddled
      BY <3>4 DEF CodesInv, SpentIsRemoved, OneList, ListIsClean
    <3> QED BY <3>3, <3>4
  <2> QED BY <2>1, <2>2
<1>4. ASSUME mfa' = [mfa EXCEPT !.muddled = TRUE] PROVE CodesInv'
  <2>1. mfa'.muddled
    BY <1>0, <1>4 DEF Mfa
  <2> QED BY <2>1 DEF CodesInv, SpentIsRemoved, OneList, ListIsClean
<1>5. ASSUME NEW p \in Procs, SaveCodes(p) PROVE CodesInv'
  <2>1. /\ At(p, "codes") /\ \A q \in Procs : q # p => req'[q] = req[q]
        /\ req'[p].pc = "session"
    BY <1>0, <1>5 DEF SaveCodes, TypeOK, Request
  <2>2. CASE mfa.state = "none" /\ mfa' = mfa
    BY <1>0, <2>2 DEF CodesInv, SpentIsRemoved, OneList, ListIsClean
  <2>3. CASE mfa.state # "none" /\ mfa' = [mfa EXCEPT !.codes = req[p].codes]
    <3>1. /\ mfa'.state = mfa.state /\ mfa'.spent = mfa.spent /\ mfa'.codes = req[p].codes
          /\ (mfa'.muddled <=> mfa.muddled)
      BY <1>0, <2>3 DEF Mfa
    <3>2. CASE ~mfa.muddled
      <4>1. mfa'.spent \cap mfa'.codes = {}
        BY <2>1, <2>3, <3>1, <3>2 DEF CodesInv, ListIsClean
      <4>2. \A q \in Procs : ~At(q, "codes")'
        BY <2>1, <2>3, <3>2 DEF CodesInv, OneList, At
      <4> QED BY <4>1, <4>2 DEF CodesInv, SpentIsRemoved, OneList, ListIsClean
    <3>3. CASE mfa.muddled
      BY <3>1, <3>3 DEF CodesInv, SpentIsRemoved, OneList, ListIsClean
    <3> QED BY <3>2, <3>3
  <2> QED BY <1>4, <1>5, <2>2, <2>3 DEF SaveCodes, Saved
<1>6. ASSUME NEW p \in Procs, Abandon(p) PROVE CodesInv'
  <2>1. CASE At(p, "codes")
    BY <1>4, <1>6, <2>1 DEF Abandon
  <2>2. CASE ~At(p, "codes")
    <3>1. mfa' = mfa /\ \A q \in Procs : q # p => req'[q] = req[q]
      BY <1>6, <2>2 DEF Abandon, Finish, TypeOK
    <3>2. ~At(p, "codes")'
      BY <1>6 DEF Abandon, Finish, TypeOK, At, NoRequest
    <3> QED BY <1>2, <2>2, <3>1, <3>2
  <2> QED BY <2>1, <2>2
<1>7. ASSUME NEW p \in Procs, Enrol(p) \/ Confirm(p) \/ Disable(p) PROVE CodesInv'
  <2>1. /\ ~At(p, "codes") /\ ~At(p, "codes")'
        /\ \A q \in Procs : q # p => req'[q] = req[q]
    BY <1>7 DEF Enrol, Confirm, Disable, Finish, TypeOK, At, NoRequest
  <2>2. CASE Enrol(p)
    <3>1. /\ mfa'.spent = {} /\ (mfa'.muddled <=> \E q \in Procs : At(q, "codes"))
      BY <2>2 DEF Enrol
    <3>2. ~mfa'.muddled => \A q \in Procs : ~At(q, "codes")'
      BY <2>1, <3>1 DEF At
    <3> QED BY <3>1, <3>2 DEF CodesInv, SpentIsRemoved, OneList, ListIsClean
  <2>3. CASE Confirm(p) /\ mfa.state # "none"
    <3>1. /\ mfa'.spent = mfa.spent /\ mfa'.codes = mfa.codes /\ (mfa'.muddled <=> mfa.muddled)
          /\ mfa'.state # "none"
      BY <1>0, <2>3 DEF Confirm, Mfa
    <3>2. \A q \in Procs : At(q, "codes") <=> At(q, "codes")'
      BY <2>1 DEF At
    <3>3. \A q \in Procs : At(q, "codes") => req'[q] = req[q]
      BY <2>1
    <3> QED BY <2>3, <3>1, <3>2, <3>3 DEF CodesInv, SpentIsRemoved, OneList, ListIsClean
  <2>4. CASE Confirm(p) /\ mfa.state = "none"
    BY <1>2, <2>1, <2>4 DEF Confirm
  <2>5. CASE Disable(p)
    <3>1. mfa'.state = "none" /\ mfa'.spent = {}
      BY <2>5 DEF Disable, NoMfa
    <3> QED BY <3>1 DEF CodesInv, SpentIsRemoved, OneList, ListIsClean
  <2> QED BY <1>7, <2>2, <2>3, <2>4, <2>5
<1>8. ASSUME NEW p \in Procs,
             \/ AcceptInvitation(p) \/ OidcResolve(p) \/ CreateSession(p)
             \/ Manage(p) \/ ForgotRead(p) \/ ForgotCommit(p)
             \/ \E pc \in {"enrol", "confirm", "disable"} : MfaRead(p, pc)
      PROVE  CodesInv'
  <2>1. mfa' = mfa /\ ~At(p, "codes")
    BY <1>8 DEF AcceptInvitation, OidcResolve, CreateSession, Manage, AdminUpdate, ScimUpdate,
                SetStatus, Revoke, ForgotRead, ForgotCommit, MfaRead, At
  <2>2. \A q \in Procs : q # p => req'[q] = req[q]
    <3>1. CASE AcceptInvitation(p) \/ OidcResolve(p) \/ CreateSession(p)
      BY <3>1 DEF AcceptInvitation, OidcResolve, CreateSession, TypeOK, Finish
    <3>2. CASE Manage(p)
      BY <3>2 DEF Manage, AdminUpdate, ScimUpdate, SetStatus, Revoke, TypeOK, Finish
    <3>3. CASE \/ ForgotRead(p) \/ ForgotCommit(p)
               \/ \E pc \in {"enrol", "confirm", "disable"} : MfaRead(p, pc)
      BY <3>3 DEF ForgotRead, ForgotCommit, MfaRead, TypeOK, Finish
    <3> QED BY <1>8, <3>1, <3>2, <3>3
  <2>3. ~At(p, "codes")'
    <3>1. NoRequest.pc = "idle" /\ NoRequest \in Request
      BY EmptyRecords
    <3>2. ASSUME Finish(p) PROVE ~At(p, "codes")'
      BY <3>1, <3>2 DEF Finish, TypeOK, At
    <3>3. CASE AcceptInvitation(p)
      BY <3>1, <3>3 DEF AcceptInvitation, TypeOK, At, Request
    <3>4. CASE OidcResolve(p)
      <4>1. CASE UNCHANGED req
        BY <2>1, <4>1 DEF At
      <4>2. CASE req' = [req EXCEPT ![p] = [NoRequest EXCEPT !.pc = "session",
                                                            !.password = account.password]]
        BY <3>1, <4>2 DEF TypeOK, At, Request
      <4> QED BY <3>4, <4>1, <4>2 DEF OidcResolve
    <3>5. ASSUME NEW status \in Statuses, NEW address, SetStatus(p, status, address)
          PROVE  ~At(p, "codes")'
      BY <1>0, <3>5 DEF SetStatus, TypeOK, At, Request
    <3>6. CASE Manage(p)
      <4>1. CASE Revoke(p)
        BY <3>2, <4>1 DEF Revoke
      <4>2. ASSUME NEW status \in Statuses, AdminUpdate(p, status) \/ ScimUpdate(p, status)
            PROVE  \E address : SetStatus(p, status, address)
        BY <4>2 DEF AdminUpdate, ScimUpdate
      <4> QED BY <3>5, <3>6, <4>1, <4>2 DEF Manage
    <3>7. CASE ForgotRead(p)
      BY <3>1, <3>7 DEF ForgotRead, TypeOK, At, Request
    <3>8. ASSUME NEW pc \in {"enrol", "confirm", "disable"}, MfaRead(p, pc) PROVE ~At(p, "codes")'
      BY <3>1, <3>8 DEF MfaRead, TypeOK, At, Request
    <3>9. CASE CreateSession(p) \/ ForgotCommit(p)
      BY <3>2, <3>9 DEF CreateSession, ForgotCommit
    <3> QED BY <1>8, <3>3, <3>4, <3>6, <3>7, <3>8, <3>9
  <2> QED BY <1>2, <2>1, <2>2, <2>3
<1>9. CASE \/ UNCHANGED vars \/ Create \/ VerifyEmail \/ DeleteUser
           \/ \E l \in Links : LinkExpires(l)
           \/ \E s \in Sessions : EndSession(s) \/ EndOthers(s)
           \/ \E r \in Resets : ResetPassword(r) \/ ResetExpires(r)
  <2>1. UNCHANGED <<mfa, req>>
    BY <1>9 DEF vars, Create, CreateInvited, CreateActive, Signup, ScimCreate, VerifyEmail,
                DeleteUser, LinkExpires, EndSession, EndOthers, ResetPassword, ResetExpires
  <2> QED BY <1>1, <2>1
<1> QED BY <1>3, <1>5, <1>6, <1>7, <1>8, <1>9 DEF Next, SignIn, SecondFactor

-----------------------------------------------------------------------------
AInv == TypeOK /\ SignedOut /\ CodesInv

LEMMA InitAInv == Init => AInv
<1> SUFFICES ASSUME Init PROVE AInv
  OBVIOUS
<1>1. TypeOK
  BY EmptyRecords DEF Init, TypeOK, Links
<1>2. SignedOut
  BY EmptyRecords DEF Init, SignedOut
<1>3. CodesInv
  BY EmptyRecords DEF Init, CodesInv, SpentIsRemoved, OneList, ListIsClean
<1> QED BY <1>1, <1>2, <1>3 DEF AInv

\* The inductive invariant of an account: types, sessions and, while sign-ins do not overlap,
\* a list of recovery codes that only its one writer may change (login, verifyMFA).
THEOREM AccountsInvariant == Spec => []AInv
<1>1. AInv /\ [Next]_vars => AInv'
  BY TypeStep, SessionStep, CodesStep DEF AInv
<1> QED BY <1>1, InitAInv, PTL DEF Spec

\* Every variable of Accounts keeps its type, and no second factor means no codes.
THEOREM AccountsTypeCorrect == Spec => []TypeOK
<1>1. AInv => TypeOK
  BY DEF AInv
<1> QED BY <1>1, AccountsInvariant, PTL

\* For any number of requests, a reset, a new status or a deletion ends every session, but
\* for the strays and while the revocation is on its way (resetPassword, updateAdminUser).
THEOREM RevocationReachesAll == Spec => []SignedOut
<1>1. AInv => SignedOut
  BY DEF AInv
<1> QED BY <1>1, AccountsInvariant, PTL

\* For any number of requests and codes, a recovery code that signed somebody in is out of
\* the list, unless sign-ins overlapped or the list could not be written (login).
THEOREM CodesAreSpentOnce == Spec => []SpentIsRemoved
<1>1. AInv => SpentIsRemoved
  BY DEF AInv, CodesInv
<1> QED BY <1>1, AccountsInvariant, PTL
===============================================================================
