--------------------------- MODULE OperatorConsole ---------------------------
(***************************************************************************)
(* The operator console at /ui (internal/web, app/ui.go) and API clients   *)
(* as the callers of Accounts.  The console signs in like /auth/token,     *)
(* keeps the token in a cookie and fires the request of a card against the *)
(* server that hosts it, by way of the load balancer on any replica.       *)
(***************************************************************************)
EXTENDS Accounts

\* Cards and whether they need a signed-in user
NeedsAuth == [rest |-> TRUE, grpc |-> TRUE, token |-> FALSE]
Card == DOMAIN NeedsAuth

\* Right and wrong credentials
Credentials ==
  (Username \X {UserPassword})
    \cup ({AdminUsername} \X {SeedPassword, resolveBootstrapPassword(1)})

\* POST /auth/token
Token(c) == \E r \in Replica, who \in Credentials : BeginLogin(c, r, who[1], who[2])

\* The console's own login, by the same service and signer
IssueFromBasic(c, r, who) == BeginLogin(c, r, who[1], who[2])

\* POST /ui/auth/token, with both fields filled in
AuthHandler(c) == \E r \in Replica, who \in Credentials : IssueFromBasic(c, r, who)

\* The browser drops the cookie after its Max-Age, the time the token has left.
Cookie(c) == IF th[c].token # None /\ th[c].token.left > 0 THEN th[c].token ELSE None

Ready(c) == th[c].pc \in {"idle", "signed in"}

Untouched == UNCHANGED <<env, seeded, rows, entry, life, deaths, cacheFaults>>

\* logoutHandler clears the cookie; the token stays valid.
Logout(c) ==
  /\ Ready(c) /\ th[c].token # None
  /\ Set(c, Answered("refused"))
  /\ Untouched

\* cardTryHandler: without the cookie a card that needs it shows the locked
\* scope (401); the gRPC card shows 501 and sends nothing either.
Shown(c, card) ==
  /\ Ready(c) /\ NeedsAuth[card]
  /\ Cookie(c) = None \/ card = "grpc"
  /\ Set(c, Answered("refused"))
  /\ Untouched

\* newDemoRequest and executeAndFill: the request with the token, and its answer
ExecuteAndFill(c, r) == Use(c, r, FALSE)

\* runCardScenario: a card of the API sends its request with the cookie's
\* token; its routes need no admin.
TryRest(c) == Cookie(c) # None /\ \E r \in Replica : ExecuteAndFill(c, r)

\* The cards for /auth/token sign in as admin with the seed password.
TryToken(c) == \E r \in Replica : BeginLogin(c, r, AdminUsername, SeedPassword)

\* A client uses its token on the API, or on the admin's routes.
CallApi(c) ==
  \E r \in Replica, adminOnly \in BOOLEAN : Use(c, r, adminOnly)

Console(c) ==
  \/ Token(c) \/ AuthHandler(c) \/ Login(c) \/ Logout(c) \/ TryRest(c) \/ TryToken(c) \/ CallApi(c)
  \/ \E card \in Card : Shown(c, card)

ConsoleNext ==
  \/ \E t \in Thread : Repository(t)
  \/ \E r \in Replica : Startup(r) \/ Die(r)
  \/ \E c \in Call : Console(c)
  \/ Tick

ConsoleSpec == AccountsInit /\ [][ConsoleNext]_accountVars

=============================================================================
