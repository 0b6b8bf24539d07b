------------------------------- MODULE Session -------------------------------
(***************************************************************************)
(* A browser session: AuthContext.tsx (who is signed in), the login page,   *)
(* RouteGuard.tsx, the sign-out of UserChip.tsx, and authFetch of           *)
(* lib/api.ts, through which every page writes: the double-submit CSRF      *)
(* token is fetched when it is missing, and a refused write is sent once    *)
(* more with a fresh one.  The cookie jar is shared with other tabs.        *)
(***************************************************************************)
EXTENDS Naturals

CONSTANTS MaxWrites,     \* bound: writes a page asks for
          MaxRotations   \* bound: changes of the token cookie by others

ASSUME SessionAssumption == MaxWrites \in Nat /\ MaxRotations \in Nat

Tokens == 0..2           \* token values; 0 is no cookie and no header

VARIABLES
    jar,       \* cookies: session, csrf
    valid,     \* the server accepts the session cookie
    sso,       \* the proxy vouches for the user
    app,       \* where the browser is and what the context holds
    req,       \* the write under way
    asked, applied, rotations, logoutLost

sessionVars == <<jar, valid, sso, app, req, asked, applied, rotations, logoutLost>>
writeVars == <<req, asked, applied>>

Idle == [phase |-> "none", token |-> 0]

(* The one type invariant. *)
SessionTypeOK ==
    /\ jar \in [session : BOOLEAN, csrf : Tokens] /\ valid \in BOOLEAN /\ sso \in BOOLEAN
    /\ app \in [at : {"boot", "login", "home", "leaving", "signout"}, user : BOOLEAN, saved : BOOLEAN,
                loading : BOOLEAN, menu : BOOLEAN]
    /\ req \in [phase : {"none", "mint", "send", "remint", "resend"}, token : Tokens]
    /\ asked \in 0..MaxWrites /\ applied \in 0..MaxWrites /\ rotations \in 0..MaxRotations
    /\ logoutLost \in BOOLEAN

Authed == sso \/ (jar.session /\ valid)
Rebooted == [at |-> "boot", user |-> FALSE, saved |-> app.saved, loading |-> FALSE, menu |-> FALSE]

-----------------------------------------------------------------------------
(* AuthProvider: GET /auth/me on mount; any failure is "not signed in".  The  *)
(* guard of a protected route sends whoever is not to the login page.         *)
MeReply ==
    /\ app.at = "boot"
    /\ \E reached \in BOOLEAN :
          app' = IF Authed /\ reached
                 THEN [app EXCEPT !.at = "home", !.user = TRUE, !.saved = TRUE]
                 ELSE [app EXCEPT !.at = "login", !.user = FALSE, !.saved = FALSE]
    /\ UNCHANGED <<jar, valid, sso, writeVars, rotations, logoutLost>>
(* The best-effort GET /api/auth/csrf of a session without the cookie. *)
Minted == IF jar.csrf = 0 THEN 1 ELSE jar.csrf
CsrfArrives ==
    /\ app.at = "home" /\ jar.csrf = 0 /\ jar' = [jar EXCEPT !.csrf = Minted]
    /\ UNCHANGED <<valid, sso, app, writeVars, rotations, logoutLost>>

(* The login form. *)
handleSubmit ==
    /\ app.at = "login" /\ ~app.loading /\ app' = [app EXCEPT !.loading = TRUE]
    /\ UNCHANGED <<jar, valid, sso, writeVars, rotations, logoutLost>>
LoginReply ==
    /\ app.loading
    /\ \/ /\ jar' = [session |-> TRUE, csrf |-> 1] /\ valid' = TRUE
          /\ app' = [app EXCEPT !.at = "home", !.user = TRUE, !.saved = TRUE, !.loading = FALSE]
       \/ app' = [app EXCEPT !.loading = FALSE] /\ UNCHANGED <<jar, valid>>
    /\ UNCHANGED <<sso, writeVars, rotations, logoutLost>>

(* UserChip: the menu, then logout().                                        *)
ToggleMenu ==
    /\ app.at = "home" /\ app' = [app EXCEPT !.menu = ~@]
    /\ UNCHANGED <<jar, valid, sso, writeVars, rotations, logoutLost>>
SignedOut == [app EXCEPT !.at = "signout", !.user = FALSE, !.saved = FALSE, !.menu = FALSE]
(* Mutant of logout: it leaves without waiting for the POST. *)
LogoutUnawaited ==
    /\ app.at = "home" /\ app.menu /\ req = Idle
    /\ app' = SignedOut
    /\ UNCHANGED <<jar, valid, sso, writeVars, rotations, logoutLost>>
logout ==
    /\ app.at = "home" /\ app.menu /\ req = Idle
    /\ app' = [app EXCEPT !.at = "leaving"]
    /\ UNCHANGED <<jar, valid, sso, writeVars, rotations, logoutLost>>
(* POST /auth/logout revokes the token and clears the cookies.  It is lost, or *)
(* refused because no token went with it; the page leaves all the same.        *)
LogoutReply ==
    /\ app.at = "leaving" /\ app' = SignedOut
    /\ \/ jar.csrf # 0 /\ jar' = [session |-> FALSE, csrf |-> 0] /\ valid' = FALSE
          /\ UNCHANGED logoutLost
       \/ logoutLost' = TRUE /\ UNCHANGED <<jar, valid>>
    /\ UNCHANGED <<sso, writeVars, rotations>>
(* /oauth2/sign_out drops the proxy's session and lands on the login page. *)
SignOutLands ==
    /\ app.at = "signout" /\ sso' = FALSE /\ app' = Rebooted /\ logoutLost' = FALSE
    /\ UNCHANGED <<jar, valid, writeVars, rotations>>

-----------------------------------------------------------------------------
(* authFetch of a write. *)
Done == req' = Idle
authFetch ==
    /\ app.at = "home" /\ req = Idle /\ asked < MaxWrites
    /\ req' = [phase |-> IF jar.csrf = 0 THEN "mint" ELSE "send", token |-> jar.csrf]
    /\ asked' = asked + 1
    /\ UNCHANGED <<jar, valid, sso, app, applied, rotations, logoutLost>>
(* bootstrapCSRFToken: the server keeps a cookie it finds; '' when it fails.  *)
bootstrapCSRFToken ==
    /\ req.phase \in {"mint", "remint"}
    /\ \E fresh \in {0, Minted} :
          /\ jar' = [jar EXCEPT !.csrf = IF fresh = 0 THEN @ ELSE fresh]
          /\ req' = IF req.phase = "mint" THEN [phase |-> "send", token |-> fresh]
                    ELSE IF fresh # 0 /\ fresh # req.token THEN [phase |-> "resend", token |-> fresh]
                    ELSE Idle
    /\ UNCHANGED <<valid, sso, app, asked, applied, rotations, logoutLost>>
Sending == req.phase \in {"send", "resend"}
(* 401: the page is left for the login page. *)
UnauthorizedStays ==   \* mutant: no redirect
    /\ Sending /\ ~Authed /\ Done
    /\ UNCHANGED <<jar, valid, sso, app, asked, applied, rotations, logoutLost>>
Unauthorized ==
    /\ Sending /\ ~Authed /\ Done /\ app' = Rebooted
    /\ UNCHANGED <<jar, valid, sso, asked, applied, rotations, logoutLost>>
(* 403, for the token or for the role; only the first one is worth a retry.   *)
Refused ==
    /\ Sending /\ Authed
    /\ req' = IF req.phase = "send" THEN [req EXCEPT !.phase = "remint"] ELSE Idle
    /\ UNCHANGED <<jar, valid, sso, app, asked, applied, rotations, logoutLost>>
Accepted ==
    /\ Sending /\ Authed /\ req.token # 0 /\ req.token = jar.csrf
    /\ applied' = applied + 1 /\ Done
    /\ UNCHANGED <<jar, valid, sso, app, asked, rotations, logoutLost>>
(* The answer is lost after the write was made: fetch throws, nobody retries. *)
AnswerRetried ==   \* mutant: the error is retried like a refusal
    /\ Sending /\ Authed /\ req.token # 0 /\ req.token = jar.csrf
    /\ applied' = IF applied < MaxWrites THEN applied + 1 ELSE applied
    /\ req' = IF req.phase = "send" THEN [req EXCEPT !.phase = "resend"] ELSE Idle
    /\ UNCHANGED <<jar, valid, sso, app, asked, rotations, logoutLost>>
AnswerLost ==
    /\ Sending /\ Authed /\ req.token # 0 /\ req.token = jar.csrf
    /\ applied' = applied + 1 /\ Done
    /\ UNCHANGED <<jar, valid, sso, app, asked, rotations, logoutLost>>

(* The session runs out or is revoked; another tab or a new deployment changes *)
(* the token cookie.                                                           *)
SessionExpires ==
    /\ valid /\ valid' = FALSE /\ UNCHANGED <<jar, sso, app, writeVars, rotations, logoutLost>>
CsrfRotates(t) ==
    /\ t # jar.csrf /\ rotations < MaxRotations /\ rotations' = rotations + 1
    /\ jar' = [jar EXCEPT !.csrf = t] /\ UNCHANGED <<valid, sso, app, writeVars, logoutLost>>

SessionInit ==
    /\ jar \in {[session |-> s, csrf |-> 0] : s \in BOOLEAN} /\ valid = jar.session /\ sso \in BOOLEAN
    /\ app = [at |-> "boot", user |-> FALSE, saved |-> FALSE, loading |-> FALSE, menu |-> FALSE]
    /\ req = Idle /\ asked = 0 /\ applied = 0 /\ rotations = 0 /\ logoutLost = FALSE
RequestStep == bootstrapCSRFToken \/ Unauthorized \/ Refused \/ Accepted \/ AnswerLost
SessionStep ==
    \/ MeReply \/ CsrfArrives \/ handleSubmit \/ LoginReply \/ ToggleMenu
    \/ logout \/ LogoutReply \/ SignOutLands
    \/ authFetch \/ RequestStep \/ SessionExpires \/ \E t \in Tokens : CsrfRotates(t)

-----------------------------------------------------------------------------
(* A write a page asks for once is made once at most, although authFetch sends *)
(* it again after a refusal and answers get lost.                              *)
WritesAppliedOnce == applied + (IF req = Idle THEN 0 ELSE 1) <= asked

(* Whoever sees the sign-out page is signed out at the server: only a logout   *)
(* that was lost or refused leaves the session cookie good.                    *)
SignedOutIsRevoked == app.at = "signout" => ~(jar.session /\ valid) \/ logoutLost

(* A page whose session is over does not write into the void: a write that is  *)
(* sent takes the user back to a page where he can sign in.                    *)
ExpiryIsNoticed == (Sending /\ ~Authed) ~> (app.at # "home" \/ Authed)
==============================================================================
