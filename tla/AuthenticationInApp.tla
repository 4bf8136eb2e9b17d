------------------------ MODULE AuthenticationInApp -------------------------
(***************************************************************************)
(* The in-app login: AuthenticationInApp, its AuthenticationInAppSession   *)
(* (src/src/authenticationinapp) and the task that owns the session:       *)
(*                                                                         *)
(*   "Login"        TaskAuthenticate, while the App is authenticating      *)
(*   "Deletion"     TaskDeleteAccount                                      *)
(*   "Management"   TaskGetSubscriptionDetails                             *)
(*                                                                         *)
(* `auth' holds the members of the session and the state its views show:   *)
(* auth.email is m_emailAddressCaseFix, the address that is sent, and      *)
(* auth.token is m_sessionToken, the number of an FxA session (0: empty).  *)
(* auth.requests has the requests in flight, at most one of each kind for  *)
(* an address and an FxA session.  Replies come in any order.  `fxa' lists *)
(* the FxA sessions the server has created, and `signUpInApp' is the       *)
(* feature inAppAccountCreate.                                             *)
(***************************************************************************)
EXTENDS Integers, Sequences, FiniteSets

CONSTANTS
    Emails,        \* e-mail addresses
    NoEmail,       \* an empty address
    Types,         \* the tasks to look at
    MaxSessions,   \* bound on the FxA sessions
    MaxErrors      \* bound on failed requests

ASSUME AuthAssumption ==
    /\ NoEmail \notin Emails /\ Emails # {}
    /\ Types \subseteq {"Login", "Deletion", "Management"}
    /\ MaxSessions \in Nat /\ MaxErrors \in Nat

VARIABLES type, signUpInApp, auth, fxa, errors

vars == <<type, signUpInApp, auth, fxa, errors>>

-----------------------------------------------------------------------------
\* States in which the user can go on, and states that wait for a reply.
Idle == {"Start", "SignIn", "SignUp", "UnblockCodeNeeded", "ByEmailNeeded",
         "ByTotpNeeded", "IsStubAccount", "IsSsoAccount", "FallbackInBrowser",
         "AccountDeletionRequest"}
Busy == {"Initializing", "CheckingAccount", "SigningIn", "SigningUp",
         "VerifyingUnblockCode", "VerifyingEmailCode", "VerifyingTotpCode"}
States == Idle \cup Busy

Reauthentication == {"Deletion", "Management"}

\* A request in flight and what it is about: the address it names or the FxA
\* session it is signed with (0: none).
Request(kind, email, session) == [kind |-> kind, email |-> email, session |-> session]

Kinds == {"start", "status", "login", "create", "sendUnblock", "verifyCode", "resend",
          "totp", "authorization", "redirect", "verify", "clients", "details",
          "destroyAccount", "destroySession"}

Post(a, kind) ==
    [a EXCEPT !.requests = @ \cup {Request(kind, a.email, a.token)}]

\* Mutant: the views keep the state of the session that is gone.
EndedStateKept(a) == [a EXCEPT !.session = FALSE, !.requests = {}]

\* The task is gone, with its session and its requests: the handler of destroyed().
Ended(a) ==
    [a EXCEPT !.session = FALSE, !.state = "Initializing", !.requests = {}]

\* AuthenticationInApp::requestState(); a re-authentication ends with an
\* authentication error when it would have to create an account.
RequestState(a, state) ==
    IF type \in Reauthentication /\ state \in {"SignUp", "FallbackInBrowser"}
    THEN Ended(a) ELSE [a EXCEPT !.state = state]

\* terminate(): without an FxA session there is nothing to destroy, and
\* terminated() completes the task.
Terminate(a) == IF a.token = 0 THEN Ended(a) ELSE Post(a, "destroySession")

\* failed(): an alert while the App is authenticating, and an authentication
\* error at any time, reset the App, which deletes the task.
Failed(a, error) ==
    IF error = "Authentication" \/ (type = "Login" /\ error # "Ignored")
    THEN Ended(a) ELSE Terminate(a)

\* An answer the code does nothing with.
Swallowed(a) == [a EXCEPT !.swallowed = TRUE]

\* checkAccount()
CheckAccount(a, email) ==
    Post([RequestState(a, "CheckingAccount") EXCEPT !.email = email], "status")

\* unblockCodeNeeded(), with sendUnblockCodeEmail()
UnblockCodeNeeded(a) == Post(RequestState(a, "UnblockCodeNeeded"), "sendUnblock")

\* Mutant: an error returns to no state of the views.
ProcessErrorObjectIgnoring(a, error) ==
    CASE error = "toStart"       -> RequestState(a, "Start")
      [] error = "blocked"       -> UnblockCodeNeeded(a)
      [] error = "unblockCode"   -> RequestState(a, "UnblockCodeNeeded")
      [] error = "code"          -> RequestState(a, "ByEmailNeeded")
      [] error = "emailCode"     -> RequestState(a, "ByEmailNeeded")
      [] error = "unsupported"   -> Swallowed(a)
      [] OTHER                   -> a

\* processErrorObject(), by what the error numbers lead to.
ProcessErrorObject(a, error) ==
    CASE error = "toStart"       -> RequestState(a, "Start")
      [] error = "toSignIn"      -> RequestState(a, "SignIn")
      [] error = "tooMany"       ->
             RequestState(a, IF type \in Reauthentication THEN "SignIn" ELSE "Start")
      [] error = "blocked"       -> UnblockCodeNeeded(a)
      [] error = "unblockCode"   -> RequestState(a, "UnblockCodeNeeded")
      [] error = "code"          ->
             RequestState(a, IF a.state = "VerifyingTotpCode" THEN "ByTotpNeeded"
                             ELSE "ByEmailNeeded")
      [] error = "emailCode"     -> RequestState(a, "ByEmailNeeded")
      [] error = "unsupported"   -> Swallowed(a)

NetworkErrors == {"Ignored", "Connection", "Authentication"}

\* The error objects the server answers a request with.
ErrorObjects(kind) ==
    {"toStart", "tooMany", "unsupported"} \cup
    CASE kind = "login"      -> {"toSignIn", "blocked", "unblockCode"}
      [] kind = "create"     -> {"blocked"}
      [] kind = "resend"     -> {"toSignIn"}
      [] kind = "verifyCode" -> {"code", "emailCode"}
      [] kind = "totp"       -> {"code"}
      [] OTHER               -> {}

\* finalizeSignInOrUp()
FinalizeSignInOrUp(a) == Post(a, "authorization")

\* signInOrUpCompleted()
SignInOrUpCompleted(a, session, method) ==
    LET stored == [a EXCEPT !.token = session]
    IN  CASE method = "verified"  -> FinalizeSignInOrUp(stored)
          [] method = "totp-2fa"  -> RequestState(stored, "ByTotpNeeded")
          [] method = "email-otp" -> RequestState(stored, "ByEmailNeeded")
          [] method = "other"     -> Swallowed(stored)

-----------------------------------------------------------------------------
\* What the user does.  The buttons of a view follow its state.

Init ==
    /\ type \in Types
    /\ signUpInApp \in BOOLEAN
    /\ \E email \in Emails \cup {NoEmail} :
          /\ type \in Reauthentication => email # NoEmail
          /\ auth = [session |-> TRUE, state |-> "Initializing", email |-> email,
                     token |-> 0, swallowed |-> FALSE,
                     requests |-> {Request("start", email, 0)}]
    /\ fxa = <<>>
    /\ errors = 0

\* A click in a view that shows `state'.
Click(state) ==
    /\ auth.session
    /\ auth.state = state
    /\ UNCHANGED <<type, signUpInApp, fxa, errors>>

\* Bound: there is room for the FxA session of every login that is started.
MayLogIn ==
    Len(fxa) + Cardinality({r \in auth.requests : r.kind \in {"login", "create"}})
        < MaxSessions

EnterEmail(email) ==
    /\ Click("Start")
    /\ type \notin Reauthentication
    /\ auth' = CheckAccount(auth, email)

CheckAgain ==
    /\ Click("IsStubAccount") \/ Click("IsSsoAccount")
    /\ auth' = CheckAccount(auth, auth.email)

\* signIn()
SignIn ==
    /\ Click("SignIn") /\ MayLogIn
    /\ auth' = Post(RequestState(auth, "SigningIn"), "login")

\* signUp()
SignUp ==
    /\ Click("SignUp") /\ MayLogIn
    /\ auth' = Post(RequestState(auth, "SigningUp"), "create")

\* verifyUnblockCode()
VerifyUnblockCode ==
    /\ Click("UnblockCodeNeeded") /\ MayLogIn
    /\ auth' = Post(RequestState(auth, "VerifyingUnblockCode"), "login")

\* sendUnblockCodeEmail()
ResendUnblockCodeEmail ==
    /\ Click("UnblockCodeNeeded")
    /\ auth' = Post(auth, "sendUnblock")

\* verifySessionEmailCode()
VerifySessionEmailCode ==
    /\ Click("ByEmailNeeded")
    /\ auth' = Post(RequestState(auth, "VerifyingEmailCode"), "verifyCode")

\* resendVerificationSessionCodeEmail()
ResendVerificationSessionCodeEmail ==
    /\ Click("ByEmailNeeded")
    /\ auth' = Post(auth, "resend")

\* verifySessionTotpCode()
VerifySessionTotpCode ==
    /\ Click("ByTotpNeeded")
    /\ auth' = Post(RequestState(auth, "VerifyingTotpCode"), "totp")

\* reset(): the back button and the link that changes the address, which stay
\* enabled while a request is in flight.
Reset ==
    /\ \/ Click("SignIn") \/ Click("SigningIn") \/ Click("SignUp") \/ Click("SigningUp")
       \/ Click("UnblockCodeNeeded") \/ Click("VerifyingUnblockCode")
       \/ Click("ByTotpNeeded") \/ Click("VerifyingTotpCode")
    /\ type \notin Reauthentication
    /\ auth' = [RequestState(auth, "Start") EXCEPT !.token = 0, !.email = NoEmail]

\* cancelAuthentication() and cancelReauthentication().  The view of the
\* subscription calls the first, which does nothing outside a login.
Cancel ==
    /\ auth.session
    /\ UNCHANGED <<type, signUpInApp, fxa, errors>>
    /\ \/ type = "Login" /\ auth' = Ended(auth)
       \/ type = "Deletion" /\ auth' = Terminate(auth)

\* deleteAccount()
DeleteAccount ==
    /\ Click("AccountDeletionRequest")
    /\ auth' = Post(auth, "destroyAccount")

-----------------------------------------------------------------------------
\* Replies.

\* The reply to `request' is taken from the network; the handler works on what is
\* left.
Received(request) ==
    /\ auth.session
    /\ request \in auth.requests
    /\ UNCHANGED <<type, signUpInApp>>

Rest(request) == [auth EXCEPT !.requests = @ \ {request}]

Errs == errors < MaxErrors /\ errors' = errors + 1

\* processRequestFailure() for the requests that end in it.
RequestFailed(request) ==
    /\ Received(request)
    /\ request.kind \notin {"redirect", "verify", "details", "destroyAccount", "destroySession"}
    /\ Errs
    /\ \/ \E error \in ErrorObjects(request.kind) :
             auth' = ProcessErrorObject(Rest(request), error)
       \/ \E error \in NetworkErrors : auth' = Failed(Rest(request), error)
    /\ UNCHANGED fxa

\* A reply without the fields the client needs.
BadReply(request) ==
    /\ Received(request)
    /\ request.kind \in {"start", "totp", "authorization", "redirect", "clients"}
    /\ Errs
    /\ auth' = Failed(Rest(request), "Authentication")
    /\ UNCHANGED fxa

Started(request) ==
    LET rest == Rest(request)
    IN  /\ Received(request)
        /\ request.kind = "start"
        /\ auth' = IF request.email = NoEmail THEN RequestState(rest, "Start")
                   ELSE CheckAccount(rest, request.email)
        /\ UNCHANGED <<fxa, errors>>

\* accountChecked()
AccountChecked(request) ==
    /\ Received(request)
    /\ request.kind = "status"
    /\ \E state \in {"IsSsoAccount", "IsStubAccount", "SignIn",
                     IF signUpInApp THEN "SignUp" ELSE "FallbackInBrowser"} :
          auth' = RequestState(Rest(request), state)
    /\ UNCHANGED <<fxa, errors>>

\* The server made an FxA session, verified or not.
LoggedIn(request) ==
    LET session == Len(fxa) + 1
    IN  /\ Received(request)
        /\ request.kind \in {"login", "create"}
        /\ \E method \in {"verified", "totp-2fa", "email-otp", "other"} :
              /\ fxa' = Append(fxa, [email |-> request.email, verified |-> method = "verified",
                                     alive |-> TRUE])
              /\ auth' = SignInOrUpCompleted(Rest(request), session, method)
        /\ UNCHANGED errors

\* errno 120: the address is tried again the way the account spells it.
WrongCase(request) ==
    /\ Received(request)
    /\ request.kind = "login"
    /\ Errs
    /\ auth' = [auth EXCEPT !.email = request.email]
    /\ UNCHANGED fxa

LoginTimeout(request) ==
    /\ Received(request)
    /\ request.kind = "login"
    /\ Errs
    /\ auth' = RequestState(Rest(request), "SignIn")
    /\ UNCHANGED fxa

CodeSent(request) ==
    /\ Received(request)
    /\ request.kind \in {"sendUnblock", "resend"}
    /\ auth' = Rest(request)
    /\ UNCHANGED <<fxa, errors>>

\* The code was right: the server has verified the session of the request.
CodeVerified(request) ==
    /\ Received(request)
    /\ request.kind \in {"verifyCode", "totp"}
    /\ request.session # 0
    /\ fxa' = [fxa EXCEPT ![request.session].verified = TRUE]
    /\ auth' = FinalizeSignInOrUp(Rest(request))
    /\ UNCHANGED errors

TotpRefused(request) ==
    /\ Received(request)
    /\ request.kind = "totp"
    /\ Errs
    /\ auth' = RequestState(Rest(request), "ByTotpNeeded")
    /\ UNCHANGED fxa

\* The server gives a code only to a session it has verified.
Verified(session) ==
    IF session = 0 THEN FALSE ELSE fxa[session].verified /\ fxa[session].alive

Authorized(request) ==
    /\ Received(request)
    /\ request.kind = "authorization"
    /\ Verified(request.session)
    /\ auth' = [Rest(request) EXCEPT !.requests = @ \cup {[request EXCEPT !.kind = "redirect"]}]
    /\ UNCHANGED <<fxa, errors>>

\* ... and refuses the others, and a request that is signed with no session, with
\* an error the client does not know.
NotAuthorized(request) ==
    /\ Received(request)
    /\ \/ request.kind = "authorization" /\ ~Verified(request.session)
       \/ request.kind \in {"verifyCode", "totp"} /\ request.session = 0
    /\ auth' = ProcessErrorObject(Rest(request), "unsupported")
    /\ UNCHANGED <<fxa, errors>>

\* completed(): the task has the code verified.  The browser of the fallback has
\* one of its own.
Redirected(request) ==
    /\ Received(request)
    /\ request.kind = "redirect"
    /\ auth' = [Rest(request) EXCEPT !.requests = @ \cup {[request EXCEPT !.kind = "verify"]}]
    /\ UNCHANGED <<fxa, errors>>

RedirectFails(request) ==
    /\ Received(request)
    /\ request.kind = "redirect"
    /\ Errs
    /\ \E error \in NetworkErrors : auth' = Failed(Rest(request), error)
    /\ UNCHANGED fxa

BrowserCompleted ==
    /\ Click("FallbackInBrowser")
    /\ auth' = Post(auth, "verify")

\* The task goes on with the code: completeAuthentication(), the deletion of the
\* account or the details of the subscription.
CodeAccepted(request) ==
    LET rest == Rest(request)
    IN  /\ Received(request)
        /\ request.kind = "verify"
        /\ auth' = CASE type = "Deletion"   -> Post(rest, "clients")
                     [] type = "Management" -> Post(rest, "details")
                     [] OTHER               -> Terminate(rest)
        /\ UNCHANGED <<fxa, errors>>

\* The request failed, or the reply has no user and token in it.  TaskAuthenticate
\* reports the error and leaves it at that.
CodeRefused(request) ==
    LET rest == Rest(request)
    IN  /\ Received(request)
        /\ request.kind = "verify"
        /\ Errs
        /\ \E error \in NetworkErrors :
              auth' = CASE error = "Authentication" /\ type # "Management" -> Ended(rest)
                        [] type = "Login" /\ error = "Connection" -> Ended(rest)
                        [] type \in Reauthentication -> Terminate(rest)
                        [] OTHER -> Swallowed(rest)
        /\ UNCHANGED fxa

ClientsFetched(request) ==
    /\ Received(request)
    /\ request.kind = "clients"
    /\ auth' = RequestState(Rest(request), "AccountDeletionRequest")
    /\ UNCHANGED <<fxa, errors>>

\* maybeComplete() of TaskGetSubscriptionDetails, for better or worse.
DetailsFetched(request) ==
    /\ Received(request)
    /\ request.kind = "details"
    /\ auth' = Terminate(Rest(request))
    /\ UNCHANGED <<fxa, errors>>

\* accountDeleted(), whatever the reply was: the task deletes itself.
AccountDeleted(request) ==
    /\ Received(request)
    /\ request.kind = "destroyAccount"
    /\ auth' = Ended(Rest(request))
    /\ UNCHANGED <<fxa, errors>>

\* terminated(), whatever the reply was.
SessionDestroyed(request) ==
    /\ Received(request)
    /\ request.kind = "destroySession"
    /\ auth' = Ended(Rest(request))
    /\ \/ fxa' = [fxa EXCEPT ![request.session].alive = FALSE] /\ UNCHANGED errors
       \/ Errs /\ UNCHANGED fxa

-----------------------------------------------------------------------------
UserNext ==
    \/ \E email \in Emails : EnterEmail(email)
    \/ CheckAgain \/ SignIn \/ SignUp \/ VerifyUnblockCode \/ ResendUnblockCodeEmail
    \/ VerifySessionEmailCode \/ ResendVerificationSessionCodeEmail
    \/ VerifySessionTotpCode \/ Reset \/ Cancel \/ DeleteAccount \/ BrowserCompleted

ReplyNext ==
    \E request \in auth.requests :
        \/ RequestFailed(request) \/ BadReply(request) \/ Started(request)
        \/ AccountChecked(request) \/ LoggedIn(request) \/ WrongCase(request)
        \/ LoginTimeout(request) \/ CodeSent(request) \/ CodeVerified(request)
        \/ TotpRefused(request) \/ Authorized(request) \/ NotAuthorized(request)
        \/ Redirected(request) \/ RedirectFails(request) \/ CodeAccepted(request)
        \/ CodeRefused(request) \/ ClientsFetched(request) \/ DetailsFetched(request)
        \/ AccountDeleted(request) \/ SessionDestroyed(request)

Next == UserNext \/ ReplyNext

Spec == Init /\ [][Next]_vars

\* Every request is answered or fails.
FairSpec == Spec /\ WF_vars(ReplyNext)

-----------------------------------------------------------------------------
\* Properties

\* Types; and a session that is gone leaves nothing behind, neither a request whose
\* reply would reach it nor a state its views would show to the next one.
TypeOK ==
    /\ type \in Types /\ signUpInApp \in BOOLEAN
    /\ auth.state \in States
    /\ auth.email \in Emails \cup {NoEmail}
    /\ auth.token \in 0..Len(fxa)
    /\ \A request \in auth.requests :
          request.kind \in Kinds /\ request.session \in 0..Len(fxa)
    /\ auth.session \in BOOLEAN /\ auth.swallowed \in BOOLEAN
    /\ Len(fxa) <= MaxSessions /\ errors <= MaxErrors
    /\ ~auth.session => auth.state = "Initializing" /\ auth.requests = {}

\* A view that shows a spinner has something to wait for: whatever replies of
\* earlier steps, resets and retries come in between, a busy state always has a
\* request in flight, unless an answer came that the code only logs.
BusyHasRequest ==
    auth.session /\ auth.state \in Busy /\ auth.requests = {} => auth.swallowed

\* Every spinner ends, when every request is answered or fails: the user gets a
\* view to go on from, or the task is done.  Answers the code only logs are the
\* exception.
Spinning == auth.session /\ auth.state \in Busy
SpinnersEnd == Spinning ~> ~Spinning \/ auth.swallowed
=============================================================================
