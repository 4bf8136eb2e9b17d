--------------------- MODULE AuthenticationInAppProofs ----------------------
(***************************************************************************)
(* Proofs about AuthenticationInApp, for any set of addresses and tasks    *)
(* and any bounds on the FxA sessions and on the errors.                   *)
(*                                                                         *)
(* The methods work on a session that is there: Live.  Each leaves behind  *)
(* a session that is Fine: well typed, gone without a trace or waiting for *)
(* a reply that some handler acts on, and with no more logins in flight    *)
(* than there is room for.  Replies to the requests for an e-mail with a   *)
(* code change nothing, so BusyHasRequest is not inductive: the request a  *)
(* spinner waits for must be one of the others.                            *)
(***************************************************************************)
EXTENDS AuthenticationInApp, FiniteSetTheorems, TLAPS

Addresses == Emails \cup {NoEmail}
Requests(n) == [kind : Kinds, email : Addresses, session : 0..n]
Sessions(n) == [session : BOOLEAN, state : States, email : Addresses, token : 0..n,
                swallowed : BOOLEAN, requests : SUBSET Requests(n)]
FxaSessions == [email : Addresses, verified : BOOLEAN, alive : BOOLEAN]

\* Kinds whose success changes nothing, and kinds that make an FxA session.
Mails == {"sendUnblock", "resend"}
LoginKinds == {"login", "create"}

Logins(a) == {r \in a.requests : r.kind \in LoginKinds}

\* A session with at most `room' logins in flight, when there are `n' FxA sessions.
Typed(a, n, room) ==
    /\ a \in Sessions(n)
    /\ IsFiniteSet(a.requests)
    /\ Cardinality(Logins(a)) <= room

Live(a, n, room) == Typed(a, n, room) /\ a.session

Gone(a) == ~a.session => a.state = "Initializing" /\ a.requests = {}

Waits(a) ==
    a.session /\ a.state \in Busy /\ ~a.swallowed =>
        \E r \in a.requests : r.kind \notin Mails

Fine(a, n, room) == Typed(a, n, room) /\ Gone(a) /\ Waits(a)

\* The inductive invariant.
Inv ==
    /\ type \in Types /\ signUpInApp \in BOOLEAN
    /\ fxa \in Seq(FxaSessions) /\ Len(fxa) <= MaxSessions
    /\ errors \in 0..MaxErrors
    /\ Fine(auth, Len(fxa), MaxSessions - Len(fxa))

-----------------------------------------------------------------------------
\* What a step of the session keeps.

LEMMA LoginsFinite ==
    ASSUME NEW a, IsFiniteSet(a.requests)
    PROVE  IsFiniteSet(Logins(a)) /\ Cardinality(Logins(a)) \in Nat
<1>1. Logins(a) \in SUBSET a.requests
  BY DEF Logins
<1>. QED  BY <1>1, FS_Subset, FS_CardinalityType

\* A change of members other than the requests.
LEMMA SameRequests ==
    ASSUME NEW n \in Nat, NEW room \in Int, NEW a, Typed(a, n, room),
           NEW r \in Sessions(n), r.requests = a.requests
    PROVE  Typed(r, n, room)
<1>1. Logins(r) = Logins(a)
  BY DEF Logins
<1>. QED  BY <1>1 DEF Typed

LEMMA EndedFine ==
    ASSUME NEW n \in Nat, NEW room \in Nat, NEW a, Typed(a, n, room)
    PROVE  Fine(Ended(a), n, room)
<1> DEFINE r == Ended(a)
<1>1. r \in Sessions(n) /\ r.requests = {} /\ ~r.session /\ r.state = "Initializing"
  BY DEF Typed, Sessions, Ended, States, Busy
<1> HIDE DEF r
<1>2. Logins(r) = {}
  BY <1>1 DEF Logins
<1>3. Typed(r, n, room)
  BY <1>1, <1>2, FS_EmptySet DEF Typed
<1>. QED  BY <1>1, <1>3 DEF Fine, Gone, Waits, r

\* Post() of anything but a login; of a login when there is more room.
LEMMA PostTyped ==
    ASSUME NEW n \in Nat, NEW room \in Nat, NEW a, Live(a, n, room), NEW kind \in Kinds
    PROVE  /\ kind \notin LoginKinds => Live(Post(a, kind), n, room)
           /\ Live(Post(a, kind), n, room + 1)
<1> DEFINE q == Request(kind, a.email, a.token)
           r == Post(a, kind)
<1>1. q \in Requests(n) /\ q.kind = kind
  BY DEF Live, Typed, Sessions, Requests, Request
<1>2. r \in Sessions(n) /\ r.session /\ r.requests = a.requests \cup {q}
  BY <1>1 DEF Live, Typed, Sessions, Post
<1> HIDE DEF q, r
<1>3. IsFiniteSet(r.requests)
  BY <1>2, FS_AddElement DEF Live, Typed
<1>4. kind \notin LoginKinds => Logins(r) = Logins(a)
  BY <1>1, <1>2 DEF Logins
<1>5. Logins(r) = Logins(a) \/ Logins(r) = Logins(a) \cup {q}
  BY <1>1, <1>2 DEF Logins
<1>6. Cardinality(Logins(a)) \in Nat /\ Cardinality(Logins(a)) <= room
      /\ IsFiniteSet(Logins(a))
  BY LoginsFinite DEF Live, Typed
<1>7. Cardinality(Logins(r)) \in {Cardinality(Logins(a)), Cardinality(Logins(a)) + 1}
  <2>1. Cardinality(Logins(a) \cup {q}) =
          IF q \in Logins(a) THEN Cardinality(Logins(a)) ELSE Cardinality(Logins(a)) + 1
    BY <1>6, FS_AddElement
  <2>. QED  BY <2>1, <1>5
<1>8. Cardinality(Logins(r)) <= room + 1
  BY <1>6, <1>7
<1>. QED  BY <1>2, <1>3, <1>4, <1>6, <1>8 DEF Live, Typed, r

\* A request that some handler will act on is in flight.
LEMMA PostFine ==
    ASSUME NEW n \in Nat, NEW room \in Nat, NEW a, Live(a, n, room),
           NEW kind \in Kinds \ Mails
    PROVE  /\ kind \notin LoginKinds => Fine(Post(a, kind), n, room)
           /\ Fine(Post(a, kind), n, room + 1)
<1> DEFINE q == Request(kind, a.email, a.token)
           r == Post(a, kind)
<1>1. r.session /\ q \in r.requests /\ q.kind \notin Mails
  BY DEF Live, Typed, Sessions, Post, Request
<1> HIDE DEF q, r
<1>2. Gone(r) /\ Waits(r)
  BY <1>1 DEF Gone, Waits
<1>. QED  BY <1>2, PostTyped DEF Live, Fine, r

\* An e-mail is sent for: whatever the session waited for, it still does.
LEMMA PostMailFine ==
    ASSUME NEW n \in Nat, NEW room \in Nat, NEW a, Fine(a, n, room), a.session,
           NEW kind \in Mails
    PROVE  Fine(Post(a, kind), n, room)
<1>1. Live(Post(a, kind), n, room)
  BY PostTyped DEF Fine, Live, Mails, Kinds, LoginKinds
<1>2. LET r == Post(a, kind)
      IN  /\ r.state = a.state /\ r.swallowed = a.swallowed
          /\ a.requests \subseteq r.requests
  BY DEF Fine, Typed, Sessions, Post
<1>. QED  BY <1>1, <1>2 DEF Fine, Live, Gone, Waits

\* requestState() with a state the user can go on from.
LEMMA RequestStateFine ==
    ASSUME NEW n \in Nat, NEW room \in Nat, NEW a, Live(a, n, room), NEW state \in Idle
    PROVE  Fine(RequestState(a, state), n, room)
<1> DEFINE r == [a EXCEPT !.state = state]
<1>1. r \in Sessions(n) /\ r.session /\ r.requests = a.requests /\ r.state = state
  BY DEF Live, Typed, Sessions, States
<1> HIDE DEF r
<1>2. state \notin Busy
  BY DEF Idle, Busy
<1>3. Fine(r, n, room)
  BY <1>1, <1>2, SameRequests DEF Live, Fine, Gone, Waits
<1>. QED  BY <1>3, EndedFine DEF RequestState, Live, r

\* ... and with one that waits, before the request is posted.
LEMMA RequestBusyLive ==
    ASSUME NEW n \in Nat, NEW room \in Nat, NEW a, Live(a, n, room), NEW state \in Busy
    PROVE  /\ Live(RequestState(a, state), n, room)
           /\ RequestState(a, state).email = a.email
<1> DEFINE r == [a EXCEPT !.state = state]
<1>1. r \in Sessions(n) /\ r.session /\ r.requests = a.requests /\ r.email = a.email
  BY DEF Live, Typed, Sessions, States
<1>2. RequestState(a, state) = r
  BY DEF RequestState, Busy
<1> HIDE DEF r
<1>. QED  BY <1>1, <1>2, SameRequests DEF Live

LEMMA TerminateFine ==
    ASSUME NEW n \in Nat, NEW room \in Nat, NEW a, Live(a, n, room)
    PROVE  Fine(Terminate(a), n, room)
<1>1. "destroySession" \in Kinds \ Mails /\ "destroySession" \notin LoginKinds
  BY DEF Kinds, Mails, LoginKinds
<1>. QED  BY <1>1, EndedFine, PostFine DEF Terminate, Live

LEMMA FailedFine ==
    ASSUME NEW n \in Nat, NEW room \in Nat, NEW a, Live(a, n, room), NEW error
    PROVE  Fine(Failed(a, error), n, room)
BY EndedFine, TerminateFine DEF Failed, Live

LEMMA SwallowedFine ==
    ASSUME NEW n \in Nat, NEW room \in Nat, NEW a, Live(a, n, room)
    PROVE  Fine(Swallowed(a), n, room)
<1> DEFINE r == Swallowed(a)
<1>1. r \in Sessions(n) /\ r.session /\ r.requests = a.requests /\ r.swallowed
  BY DEF Live, Typed, Sessions, Swallowed
<1> HIDE DEF r
<1>. QED  BY <1>1, SameRequests DEF Live, Fine, Gone, Waits, r

LEMMA CheckAccountFine ==
    ASSUME NEW n \in Nat, NEW room \in Nat, NEW a, Live(a, n, room),
           NEW email \in Addresses
    PROVE  Fine(CheckAccount(a, email), n, room)
<1> DEFINE b == RequestState(a, "CheckingAccount")
           r == [b EXCEPT !.email = email]
<1>1. Live(b, n, room)
  BY RequestBusyLive DEF Busy
<1> HIDE DEF b
<1>2. r \in Sessions(n) /\ r.session /\ r.requests = b.requests
  BY <1>1 DEF Live, Typed, Sessions
<1> HIDE DEF r
<1>3. Live(r, n, room)
  BY <1>1, <1>2, SameRequests DEF Live
<1>4. Fine(Post(r, "status"), n, room)
  BY <1>3, PostFine DEF Kinds, Mails, LoginKinds
<1>. QED  BY <1>4 DEF CheckAccount, r, b

LEMMA UnblockCodeNeededFine ==
    ASSUME NEW n \in Nat, NEW room \in Nat, NEW a, Live(a, n, room)
    PROVE  Fine(UnblockCodeNeeded(a), n, room)
<1> DEFINE b == RequestState(a, "UnblockCodeNeeded")
<1>1. Fine(b, n, room)
  BY RequestStateFine DEF Idle
<1>2. b.session
  BY DEF RequestState, Live, Typed, Sessions
<1> HIDE DEF b
<1>3. Fine(Post(b, "sendUnblock"), n, room)
  BY <1>1, <1>2, PostMailFine DEF Mails
<1>. QED  BY <1>3 DEF UnblockCodeNeeded, b

KnownErrors == {"toStart", "toSignIn", "tooMany", "blocked", "unblockCode", "code",
                "emailCode", "unsupported"}

LEMMA ProcessErrorObjectFine ==
    ASSUME NEW n \in Nat, NEW room \in Nat, NEW a, Live(a, n, room),
           NEW error \in KnownErrors
    PROVE  Fine(ProcessErrorObject(a, error), n, room)
<1>1. \A state \in Idle : Fine(RequestState(a, state), n, room)
  BY RequestStateFine
<1>2. Fine(UnblockCodeNeeded(a), n, room) /\ Fine(Swallowed(a), n, room)
  BY UnblockCodeNeededFine, SwallowedFine
<1>3. {"Start", "SignIn", "UnblockCodeNeeded", "ByTotpNeeded", "ByEmailNeeded"} \subseteq Idle
  BY DEF Idle
<1>. QED  BY <1>1, <1>2, <1>3 DEF ProcessErrorObject, KnownErrors

LEMMA ErrorObjectsKnown ==
    ASSUME NEW kind
    PROVE  ErrorObjects(kind) \subseteq KnownErrors
BY DEF ErrorObjects, KnownErrors

LEMMA SignInOrUpCompletedFine ==
    ASSUME NEW n \in Nat, NEW room \in Nat, NEW a, Live(a, n, room), NEW session \in 0..n,
           NEW method \in {"verified", "totp-2fa", "email-otp", "other"}
    PROVE  Fine(SignInOrUpCompleted(a, session, method), n, room)
<1> DEFINE r == [a EXCEPT !.token = session]
<1>1. r \in Sessions(n) /\ r.session /\ r.requests = a.requests
  BY DEF Live, Typed, Sessions
<1> HIDE DEF r
<1>2. Live(r, n, room)
  BY <1>1, SameRequests DEF Live
<1>3. /\ Fine(Post(r, "authorization"), n, room)
      /\ Fine(RequestState(r, "ByTotpNeeded"), n, room)
      /\ Fine(RequestState(r, "ByEmailNeeded"), n, room)
      /\ Fine(Swallowed(r), n, room)
  BY <1>2, PostFine, RequestStateFine, SwallowedFine
     DEF Kinds, Mails, LoginKinds, Idle
<1>. QED  BY <1>3 DEF SignInOrUpCompleted, FinalizeSignInOrUp, r

-----------------------------------------------------------------------------
\* The steps of Next.

Room == MaxSessions - Len(fxa)

\* A handler runs in a session that is there.
LEMMA HandlerLive ==
    ASSUME Inv, auth.session
    PROVE  /\ Len(fxa) \in Nat /\ Room \in Nat
           /\ Live(auth, Len(fxa), Room)
BY AuthAssumption DEF Inv, Fine, Live, Room

\* A reply is taken; that of a login leaves room for its FxA session.
LEMMA RestLive ==
    ASSUME Inv, NEW request, Received(request)
    PROVE  /\ Len(fxa) \in Nat /\ Room \in Nat
           /\ request \in Requests(Len(fxa))
           /\ Live(Rest(request), Len(fxa), Room)
           /\ request.kind \in LoginKinds =>
                 Room - 1 \in Nat /\ Live(Rest(request), Len(fxa) + 1, Room - 1)
<1> DEFINE r == Rest(request)
           n == Len(fxa)
<1>1. n \in Nat /\ Room \in Nat /\ Live(auth, n, Room) /\ request \in auth.requests
  BY HandlerLive DEF Received
<1>2. request \in Requests(n)
  BY <1>1 DEF Live, Typed, Sessions
<1>3. r \in Sessions(n) /\ r.session /\ r.requests = auth.requests \ {request}
  BY <1>1 DEF Rest, Live, Typed, Sessions
<1> HIDE DEF r, n
<1>4. r \in Sessions(n + 1)
  <2>1. 0..n \subseteq 0..(n + 1)
    BY <1>1
  <2>2. Requests(n) \subseteq Requests(n + 1)
    BY <2>1 DEF Requests
  <2>. QED  BY <1>3, <2>1, <2>2 DEF Sessions
<1>5. IsFiniteSet(r.requests)
  BY <1>1, <1>3, FS_RemoveElement DEF Live, Typed
<1>6. IsFiniteSet(Logins(auth)) /\ Cardinality(Logins(auth)) \in Nat
      /\ Cardinality(Logins(auth)) <= Room
  BY <1>1, LoginsFinite DEF Live, Typed
<1>7. Logins(r) = Logins(auth) \ {request}
  BY <1>3 DEF Logins
<1>8. Cardinality(Logins(r)) = IF request \in Logins(auth) THEN Cardinality(Logins(auth)) - 1
                               ELSE Cardinality(Logins(auth))
  BY <1>6, <1>7, FS_RemoveElement
<1>9. Cardinality(Logins(r)) \in Nat
  BY <1>5, LoginsFinite
<1>10. Cardinality(Logins(r)) <= Room
  BY <1>1, <1>6, <1>8
<1>11. ASSUME request.kind \in LoginKinds
       PROVE  Room - 1 \in Nat /\ Cardinality(Logins(r)) <= Room - 1
  <2>1. request \in Logins(auth)
    BY <1>1, <1>11 DEF Logins
  <2>. QED  BY <2>1, <1>1, <1>6, <1>8, <1>9
<1>. QED  BY <1>1, <1>2, <1>3, <1>4, <1>5, <1>10, <1>11 DEF Live, Typed, r, n

\* What a step leaves of the other variables.
Others ==
    /\ type' \in Types /\ signUpInApp' \in BOOLEAN
    /\ errors' \in 0..MaxErrors

LEMMA SameFxa ==
    ASSUME Inv, Others, UNCHANGED fxa, Fine(auth', Len(fxa), Room)
    PROVE  Inv'
BY DEF Inv, Others, Room

LEMMA ErrsBound ==
    ASSUME Inv, UNCHANGED errors \/ Errs
    PROVE  errors' \in 0..MaxErrors
BY AuthAssumption DEF Inv, Errs

\* One more login, if there is room for it.
LEMMA LogInStep ==
    ASSUME Inv, auth.session, MayLogIn, NEW state \in Busy, NEW kind \in LoginKinds
    PROVE  Fine(Post(RequestState(auth, state), kind), Len(fxa), Room)
<1> DEFINE n == Len(fxa)
           b == RequestState(auth, state)
<1>1. n \in Nat /\ Room \in Nat /\ Live(auth, n, Room)
  BY HandlerLive
<1>2. Cardinality(Logins(auth)) \in Nat
  BY <1>1, LoginsFinite DEF Live, Typed
<1>3. n + Cardinality(Logins(auth)) < MaxSessions
  BY DEF MayLogIn, Logins, LoginKinds
<1>4. Room - 1 \in Nat /\ Cardinality(Logins(auth)) <= Room - 1
  BY <1>1, <1>2, <1>3, AuthAssumption DEF Room
<1> HIDE DEF n
<1>5. Live(auth, n, Room - 1)
  BY <1>1, <1>4 DEF Live, Typed
<1>6. Live(b, n, Room - 1)
  BY <1>1, <1>4, <1>5, RequestBusyLive
<1> HIDE DEF b
<1>7. Fine(Post(b, kind), n, (Room - 1) + 1)
  BY <1>1, <1>4, <1>6, PostFine DEF Kinds, Mails, LoginKinds
<1>8. (Room - 1) + 1 = Room
  BY <1>1
<1>. QED  BY <1>7, <1>8 DEF n, b

\* A request that follows a click and changes the state of the view.
LEMMA BusyStep ==
    ASSUME Inv, auth.session, NEW state \in Busy, NEW kind \in Kinds \ (Mails \cup LoginKinds)
    PROVE  Fine(Post(RequestState(auth, state), kind), Len(fxa), Room)
<1>1. Live(RequestState(auth, state), Len(fxa), Room) /\ Len(fxa) \in Nat /\ Room \in Nat
  BY HandlerLive, RequestBusyLive
<1>. QED  BY <1>1, PostFine

LEMMA ClickSession ==
    ASSUME NEW state, Click(state)
    PROVE  auth.session /\ UNCHANGED <<type, signUpInApp, fxa, errors>>
BY DEF Click

\* reset() forgets the address and the FxA session.
LEMMA ResetFine ==
    ASSUME Inv, auth.session, type \notin Reauthentication
    PROVE  Fine([RequestState(auth, "Start") EXCEPT !.token = 0, !.email = NoEmail],
                Len(fxa), Room)
<1> DEFINE n == Len(fxa)
           r == [RequestState(auth, "Start") EXCEPT !.token = 0, !.email = NoEmail]
<1>1. n \in Nat /\ Room \in Nat /\ Live(auth, n, Room)
  BY HandlerLive
<1>2. RequestState(auth, "Start") = [auth EXCEPT !.state = "Start"]
  BY DEF RequestState
<1>3. r = [auth EXCEPT !.state = "Start", !.token = 0, !.email = NoEmail]
  BY <1>1, <1>2 DEF Live, Typed, Sessions
<1> HIDE DEF n, r
<1>4. r \in Sessions(n)
  <2>1. 0 \in 0..n /\ NoEmail \in Addresses /\ "Start" \in States
    BY <1>1 DEF Addresses, States, Idle
  <2>. QED  BY <1>1, <1>3, <2>1 DEF Live, Typed, Sessions
<1>5. r.requests = auth.requests /\ r.session /\ r.state = "Start"
  BY <1>1, <1>3 DEF Live, Typed, Sessions
<1>6. r.state \notin Busy
  BY <1>5 DEF Busy
<1>7. Typed(r, n, Room)
  BY <1>1, <1>4, <1>5, SameRequests DEF Live
<1>8. Fine(r, n, Room)
  BY <1>5, <1>6, <1>7 DEF Fine, Gone, Waits
<1>. QED  BY <1>8 DEF n, r

LEMMA UserStep ==
    ASSUME Inv, UserNext
    PROVE  Inv'
<1>1. auth.session /\ UNCHANGED <<type, signUpInApp, fxa, errors>>
  BY ClickSession DEF UserNext, EnterEmail, CheckAgain, SignIn, SignUp, VerifyUnblockCode,
     ResendUnblockCodeEmail, VerifySessionEmailCode, ResendVerificationSessionCodeEmail,
     VerifySessionTotpCode, Reset, Cancel, DeleteAccount, BrowserCompleted
<1>2. Others
  BY <1>1 DEF Inv, Others
<1>3. Len(fxa) \in Nat /\ Room \in Nat /\ Live(auth, Len(fxa), Room)
  BY <1>1, HandlerLive
<1>4. SUFFICES Fine(auth', Len(fxa), Room)
  BY <1>1, <1>2, SameFxa
<1>5. CASE \E email \in Emails : EnterEmail(email)
  BY <1>5, <1>3, CheckAccountFine DEF EnterEmail, Addresses
<1>6. CASE CheckAgain
  BY <1>6, <1>3, CheckAccountFine DEF CheckAgain, Live, Typed, Sessions
<1>7. CASE SignIn
  BY <1>7, <1>1, LogInStep DEF SignIn, Busy, LoginKinds
<1>8. CASE SignUp
  BY <1>8, <1>1, LogInStep DEF SignUp, Busy, LoginKinds
<1>9. CASE VerifyUnblockCode
  BY <1>9, <1>1, LogInStep DEF VerifyUnblockCode, Busy, LoginKinds
<1>10. CASE ResendUnblockCodeEmail
  BY <1>10, <1>1, <1>3, PostMailFine DEF ResendUnblockCodeEmail, Mails, Inv, Room
<1>11. CASE VerifySessionEmailCode
  BY <1>11, <1>1, BusyStep DEF VerifySessionEmailCode, Busy, Kinds, Mails, LoginKinds
<1>12. CASE ResendVerificationSessionCodeEmail
  BY <1>12, <1>1, <1>3, PostMailFine DEF ResendVerificationSessionCodeEmail, Mails, Inv, Room
<1>13. CASE VerifySessionTotpCode
  BY <1>13, <1>1, BusyStep DEF VerifySessionTotpCode, Busy, Kinds, Mails, LoginKinds
<1>14. CASE Reset
  BY <1>14, <1>1, ResetFine DEF Reset
<1>15. CASE Cancel
  BY <1>15, <1>3, EndedFine, TerminateFine DEF Cancel, Live
<1>16. CASE DeleteAccount
  BY <1>16, <1>3, PostFine DEF DeleteAccount, Kinds, Mails, LoginKinds
<1>17. CASE BrowserCompleted
  BY <1>17, <1>3, PostFine DEF BrowserCompleted, Kinds, Mails, LoginKinds
<1>. QED  BY <1>5, <1>6, <1>7, <1>8, <1>9, <1>10, <1>11, <1>12, <1>13, <1>14, <1>15,
             <1>16, <1>17 DEF UserNext

\* The reply to a login: there is one FxA session more.
LEMMA LoggedInStep ==
    ASSUME Inv, NEW request, LoggedIn(request)
    PROVE  Inv'
<1>1. Received(request) /\ request.kind \in LoginKinds
  BY DEF LoggedIn, LoginKinds
<1>2. PICK method \in {"verified", "totp-2fa", "email-otp", "other"} :
         /\ fxa' = Append(fxa, [email |-> request.email, verified |-> method = "verified",
                                alive |-> TRUE])
         /\ auth' = SignInOrUpCompleted(Rest(request), Len(fxa) + 1, method)
  BY DEF LoggedIn
<1>3. /\ Len(fxa) \in Nat /\ Room - 1 \in Nat /\ request \in Requests(Len(fxa))
      /\ Live(Rest(request), Len(fxa) + 1, Room - 1)
  BY <1>1, RestLive
<1>4. fxa' \in Seq(FxaSessions) /\ Len(fxa') = Len(fxa) + 1
  BY <1>2, <1>3 DEF Inv, FxaSessions, Requests
<1>5. Fine(auth', Len(fxa) + 1, Room - 1)
  BY <1>2, <1>3, SignInOrUpCompletedFine
<1>6. Len(fxa) + 1 <= MaxSessions /\ Room - 1 = MaxSessions - (Len(fxa) + 1)
  BY <1>3, AuthAssumption DEF Room
<1>7. Others
  BY DEF LoggedIn, Received, Inv, Others
<1>. QED  BY <1>4, <1>5, <1>6, <1>7 DEF Inv, Others

\* The server marks an FxA session.
LEMMA FxaMarked ==
    ASSUME Inv, Others, NEW i \in 0..Len(fxa), Fine(auth', Len(fxa), Room),
           \/ fxa' = [fxa EXCEPT ![i].verified = TRUE]
           \/ fxa' = [fxa EXCEPT ![i].alive = FALSE]
    PROVE  Inv'
<1> DEFINE n == Len(fxa)
<1>1. n \in Nat /\ fxa \in [1..n -> FxaSessions]
  BY DEF Inv
<1>2. fxa' \in [1..n -> FxaSessions]
  <2>1. \A j \in 1..n : fxa[j] \in FxaSessions
    BY <1>1
  <2>2. \A s \in FxaSessions : /\ [s EXCEPT !.verified = TRUE] \in FxaSessions
                              /\ [s EXCEPT !.alive = FALSE] \in FxaSessions
    BY DEF FxaSessions
  <2> HIDE DEF n
  <2>3. CASE fxa' = [fxa EXCEPT ![i].verified = TRUE]
    BY <2>1, <2>2, <2>3, <1>1
  <2>4. CASE fxa' = [fxa EXCEPT ![i].alive = FALSE]
    BY <2>1, <2>2, <2>4, <1>1
  <2>. QED  BY <2>3, <2>4
<1>3. fxa' \in Seq(FxaSessions) /\ Len(fxa') = n
  BY <1>1, <1>2
<1>. QED  BY <1>3 DEF Inv, Others, Room

\* A request goes on as one of another kind.
LEMMA ForwardedFine ==
    ASSUME Inv, NEW request, Received(request), NEW kind \in Kinds \ (Mails \cup LoginKinds)
    PROVE  Fine([Rest(request) EXCEPT !.requests = @ \cup {[request EXCEPT !.kind = kind]}],
                Len(fxa), Room)
<1> DEFINE n == Len(fxa)
           b == Rest(request)
           q == [request EXCEPT !.kind = kind]
           r == [b EXCEPT !.requests = @ \cup {q}]
<1>1. n \in Nat /\ Room \in Nat /\ request \in Requests(n) /\ Live(b, n, Room)
  BY RestLive
<1>2. q \in Requests(n) /\ q.kind = kind
  BY <1>1 DEF Requests
<1> HIDE DEF n, b, q
<1>3. r \in Sessions(n) /\ r.session /\ r.requests = b.requests \cup {q}
  BY <1>1, <1>2 DEF Live, Typed, Sessions
<1> HIDE DEF r
<1>4. Logins(r) = Logins(b)
  BY <1>2, <1>3 DEF Logins
<1>5. IsFiniteSet(r.requests)
  BY <1>1, <1>3, FS_AddElement DEF Live, Typed
<1>6. Fine(r, n, Room)
  BY <1>1, <1>2, <1>3, <1>4, <1>5 DEF Live, Typed, Fine, Gone, Waits
<1>. QED  BY <1>6 DEF n, b, q, r

\* Replies that leave the FxA sessions alone.
SilentReply(request) ==
    \/ RequestFailed(request) \/ BadReply(request) \/ Started(request)
    \/ AccountChecked(request) \/ WrongCase(request) \/ LoginTimeout(request)
    \/ CodeSent(request) \/ TotpRefused(request) \/ Authorized(request)
    \/ NotAuthorized(request) \/ Redirected(request) \/ RedirectFails(request)
    \/ CodeAccepted(request) \/ CodeRefused(request) \/ ClientsFetched(request)
    \/ DetailsFetched(request) \/ AccountDeleted(request)

LEMMA SilentReplyFrame ==
    ASSUME NEW request, SilentReply(request)
    PROVE  /\ Received(request) /\ UNCHANGED fxa
           /\ UNCHANGED errors \/ Errs
BY DEF SilentReply, RequestFailed, BadReply, Started, AccountChecked, WrongCase,
   LoginTimeout, CodeSent, TotpRefused, Authorized, NotAuthorized, Redirected,
   RedirectFails, CodeAccepted, CodeRefused, ClientsFetched, DetailsFetched, AccountDeleted

\* An e-mail was sent: whatever the session waits for is still to come.
LEMMA CodeSentFine ==
    ASSUME Inv, NEW request, CodeSent(request)
    PROVE  Fine(auth', Len(fxa), Room)
<1> DEFINE r == Rest(request)
<1>1. Live(r, Len(fxa), Room) /\ Live(auth, Len(fxa), Room)
  BY RestLive, HandlerLive DEF CodeSent, Received
<1>2. r.state = auth.state /\ r.swallowed = auth.swallowed
      /\ r.requests = auth.requests \ {request}
  BY <1>1 DEF Rest, Live, Typed, Sessions
<1>3. request.kind \in Mails /\ auth' = r
  BY DEF CodeSent, Mails
<1> HIDE DEF r
<1>4. Waits(auth) /\ auth.session
  BY <1>1 DEF Inv, Fine, Live
<1>5. Waits(r)
  BY <1>2, <1>3, <1>4 DEF Waits
<1>. QED  BY <1>1, <1>3, <1>5 DEF Fine, Live, Gone

\* The address of the account: nothing else changes.
LEMMA WrongCaseFine ==
    ASSUME Inv, NEW request, WrongCase(request)
    PROVE  Fine(auth', Len(fxa), Room)
<1> DEFINE n == Len(fxa)
<1>1. n \in Nat /\ Room \in Nat /\ Live(auth, n, Room) /\ request \in Requests(n)
  BY RestLive, HandlerLive DEF WrongCase, Received
<1> HIDE DEF n
<1>2. auth' \in Sessions(n)
  BY <1>1 DEF WrongCase, Live, Typed, Sessions, Requests
<1>3. auth'.state = auth.state /\ auth'.swallowed = auth.swallowed /\ auth'.session
      /\ auth'.requests = auth.requests
  BY <1>1 DEF WrongCase, Live, Typed, Sessions
<1>4. Typed(auth', n, Room)
  BY <1>1, <1>2, <1>3, SameRequests DEF Live
<1>5. Waits(auth) /\ auth.session
  BY <1>1 DEF Inv, Fine, Live
<1>. QED  BY <1>3, <1>4, <1>5 DEF Fine, Gone, Waits, n

LEMMA SilentReplyStep ==
    ASSUME Inv, NEW request, SilentReply(request)
    PROVE  Inv'
<1> DEFINE n == Len(fxa)
           rest == Rest(request)
<1>1. Received(request) /\ UNCHANGED fxa
  BY SilentReplyFrame
<1>2. Others
  BY SilentReplyFrame, ErrsBound DEF Received, Inv, Others
<1>3. n \in Nat /\ Room \in Nat /\ request \in Requests(n) /\ Live(rest, n, Room)
  BY <1>1, RestLive
<1>4. /\ \A state \in Idle : Fine(RequestState(rest, state), n, Room)
      /\ \A error : Fine(Failed(rest, error), n, Room)
      /\ \A error \in KnownErrors : Fine(ProcessErrorObject(rest, error), n, Room)
  BY <1>3, RequestStateFine, FailedFine, ProcessErrorObjectFine
<1>5. /\ Fine(Terminate(rest), n, Room) /\ Fine(Ended(rest), n, Room)
      /\ Fine(Swallowed(rest), n, Room)
      /\ Fine(Post(rest, "clients"), n, Room) /\ Fine(Post(rest, "details"), n, Room)
  BY <1>3, TerminateFine, EndedFine, SwallowedFine, PostFine
     DEF Live, Kinds, Mails, LoginKinds
<1>6. SUFFICES Fine(auth', n, Room)
  BY <1>1, <1>2, SameFxa
<1> HIDE DEF n, rest
<1>7. CASE RequestFailed(request)
  BY <1>7, <1>4, ErrorObjectsKnown DEF RequestFailed, rest
<1>8. CASE BadReply(request)
  BY <1>8, <1>4 DEF BadReply, rest
<1>9. CASE Started(request)
  BY <1>9, <1>3, <1>4, CheckAccountFine DEF Started, Requests, Idle, rest
<1>10. CASE AccountChecked(request)
  BY <1>10, <1>4 DEF AccountChecked, Idle, rest
<1>11. CASE WrongCase(request)
  BY <1>11, WrongCaseFine DEF n
<1>12. CASE LoginTimeout(request)
  BY <1>12, <1>4 DEF LoginTimeout, Idle, rest
<1>13. CASE CodeSent(request)
  BY <1>13, CodeSentFine DEF n
<1>14. CASE TotpRefused(request)
  BY <1>14, <1>4 DEF TotpRefused, Idle, rest
<1>15. CASE Authorized(request)
  BY <1>15, <1>1, ForwardedFine DEF Authorized, Kinds, Mails, LoginKinds, n
<1>16. CASE NotAuthorized(request)
  BY <1>16, <1>4 DEF NotAuthorized, KnownErrors, rest
<1>17. CASE Redirected(request)
  BY <1>17, <1>1, ForwardedFine DEF Redirected, Kinds, Mails, LoginKinds, n
<1>18. CASE RedirectFails(request)
  BY <1>18, <1>4 DEF RedirectFails, rest
<1>19. CASE CodeAccepted(request)
  BY <1>19, <1>5 DEF CodeAccepted, rest
<1>20. CASE CodeRefused(request)
  BY <1>20, <1>5 DEF CodeRefused, rest
<1>21. CASE ClientsFetched(request)
  BY <1>21, <1>4 DEF ClientsFetched, Idle, rest
<1>22. CASE DetailsFetched(request)
  BY <1>22, <1>5 DEF DetailsFetched, rest
<1>23. CASE AccountDeleted(request)
  BY <1>23, <1>5 DEF AccountDeleted, rest
<1>. QED  BY <1>7, <1>8, <1>9, <1>10, <1>11, <1>12, <1>13, <1>14, <1>15, <1>16, <1>17,
             <1>18, <1>19, <1>20, <1>21, <1>22, <1>23 DEF SilentReply

\* A code was right, or an FxA session is destroyed.
LEMMA CodeVerifiedStep ==
    ASSUME Inv, NEW request, CodeVerified(request)
    PROVE  Inv'
<1>1. Received(request)
  BY DEF CodeVerified
<1>2. /\ Len(fxa) \in Nat /\ Room \in Nat /\ request \in Requests(Len(fxa))
      /\ Live(Rest(request), Len(fxa), Room)
  BY <1>1, RestLive
<1>3. Fine(auth', Len(fxa), Room)
  BY <1>2, PostFine DEF CodeVerified, FinalizeSignInOrUp, Kinds, Mails, LoginKinds
<1>4. Others
  BY <1>1 DEF CodeVerified, Received, Inv, Others
<1>. QED  BY <1>2, <1>3, <1>4, FxaMarked DEF CodeVerified, Requests

LEMMA SessionDestroyedStep ==
    ASSUME Inv, NEW request, SessionDestroyed(request)
    PROVE  Inv'
<1>1. Received(request)
  BY DEF SessionDestroyed
<1>2. /\ Len(fxa) \in Nat /\ Room \in Nat /\ request \in Requests(Len(fxa))
      /\ Live(Rest(request), Len(fxa), Room)
  BY <1>1, RestLive
<1>3. Fine(auth', Len(fxa), Room)
  BY <1>2, EndedFine DEF SessionDestroyed, Live
<1>4. Others
  BY <1>1, ErrsBound DEF SessionDestroyed, Received, Inv, Others
<1>5. CASE UNCHANGED fxa
  BY <1>5, <1>3, <1>4, SameFxa
<1>6. CASE fxa' = [fxa EXCEPT ![request.session].alive = FALSE]
  BY <1>6, <1>2, <1>3, <1>4, FxaMarked DEF Requests
<1>. QED  BY <1>5, <1>6 DEF SessionDestroyed

LEMMA ReplyStep ==
    ASSUME Inv, ReplyNext
    PROVE  Inv'
<1>1. PICK request \in auth.requests :
         \/ SilentReply(request) \/ LoggedIn(request) \/ CodeVerified(request)
         \/ SessionDestroyed(request)
  BY DEF ReplyNext, SilentReply
<1>. QED  BY <1>1, SilentReplyStep, LoggedInStep, CodeVerifiedStep, SessionDestroyedStep

LEMMA InitInv == Init => Inv
<1> SUFFICES ASSUME Init PROVE Inv
  OBVIOUS
<1>1. PICK email \in Emails \cup {NoEmail} :
         auth = [session |-> TRUE, state |-> "Initializing", email |-> email,
                 token |-> 0, swallowed |-> FALSE,
                 requests |-> {Request("start", email, 0)}]
  BY DEF Init
<1> DEFINE q == Request("start", email, 0)
<1>2. fxa = <<>> /\ Len(fxa) = 0 /\ errors = 0
  BY DEF Init
<1>3. q \in Requests(0) /\ q.kind = "start"
  BY DEF Requests, Request, Kinds, Addresses
<1> HIDE DEF q
<1>4. auth = [session |-> TRUE, state |-> "Initializing", email |-> email,
              token |-> 0, swallowed |-> FALSE, requests |-> {q}]
  BY <1>1 DEF q
<1>5. auth \in Sessions(0) /\ auth.requests = {q} /\ auth.session
  BY <1>3, <1>4 DEF Sessions, States, Busy, Addresses
<1>6. Logins(auth) = {}
  BY <1>3, <1>5 DEF Logins, LoginKinds
<1>7. IsFiniteSet(auth.requests) /\ Cardinality(Logins(auth)) = 0
  BY <1>5, <1>6, FS_Singleton, FS_EmptySet
<1>8. Fine(auth, 0, MaxSessions)
  BY <1>3, <1>5, <1>7, AuthAssumption DEF Fine, Typed, Gone, Waits, Mails
<1>. QED  BY <1>2, <1>8, AuthAssumption DEF Inv, Init

\* The inductive invariant holds in every reachable state.
THEOREM Invariance == Spec => []Inv
<1>1. Inv /\ [Next]_vars => Inv'
  <2> SUFFICES ASSUME Inv, [Next]_vars PROVE Inv'
    OBVIOUS
  <2>1. CASE UNCHANGED vars
    BY <2>1 DEF vars, Inv
  <2>. QED  BY <2>1, UserStep, ReplyStep DEF Next
<1>. QED  BY <1>1, InitInv, PTL DEF Spec

\* TypeOK: the members keep their types; every request in flight is signed with an
\* FxA session that the server has made (or with none), however replies, resets and
\* retries are ordered; and the handler of destroyed() leaves no request and no state
\* of the session behind.
THEOREM TypeCorrect == Spec => []TypeOK
<1>1. Inv => TypeOK
  BY DEF Inv, Fine, Typed, Gone, Sessions, Requests, Addresses, TypeOK
<1>. QED  BY <1>1, Invariance, PTL

\* BusyHasRequest: whatever replies of earlier steps, resets and retries come in
\* between, a view that shows a spinner has a request in flight whose handler goes on,
\* unless an answer came that processErrorObject() and its callers only log.
THEOREM SpinnerWaits == Spec => []BusyHasRequest
<1>1. Inv => BusyHasRequest
  BY DEF Inv, Fine, Typed, Waits, Sessions, BusyHasRequest
<1>. QED  BY <1>1, Invariance, PTL
=============================================================================
