------------------------------- MODULE WebApp -------------------------------
(* The frame of the web panel: App with its views, the login, registration, *)
(* dashboard and account pages, the sidebar and the header with the bell.   *)
(*                                                                          *)
(* The session is a cookie: other tabs share it, and it is gone when nps is *)
(* started again.  The panel learns of that only from a call; the promise of*)
(* a call that the view it was made from did not survive still navigates.   *)
(* The number in a view ("edit-client-7") is left out.                       *)
EXTENDS ApiClient, Naturals, FiniteSets

CONSTANTS MaxPending,  \* bound: calls under way
          MaxTurns     \* bound: what the user and other tabs do

ASSUME AppBoundsAssumption == MaxPending \in Nat /\ MaxTurns \in Nat

VARIABLES
    panel,         \* `currentView`; "boot" until authChecked
    session,       \* whose session the cookie is: "none", "admin" or "user"
    pending,       \* the calls under way
    waiting,       \* what shows that it waits: a page, a submit button, the bell
    error,         \* the message a page shows, NoText for none
    bell,          \* notifOpen
    registerLink,  \* allowRegister of the login page
    turns          \* counter for the bound

look == <<waiting, error, bell, registerLink>>
appVars == <<panel, session, pending, look, turns>>

----------------------------------------------------------------------------
(* Views.                                                                    *)
TunnelTypes == {"tcp", "udp", "httpProxy", "socks5", "secret", "p2p", "file"}
TunnelLists == {"tcp", "udp", "http", "socks5", "tunnel", "p2p", "file", "tunnel-all"}
HostLists == {"domain", "domain-client"}

\* A mutant of Renders: the test for the lists of tunnels forgets one.
RendersNoFile(v) ==
    v \in {"login", "register", "dashboard", "add-client", "clients", "edit-client", "add-tunnel", "edit-tunnel",
           "add-host", "edit-host", "help", "user-center"} \cup HostLists \cup (TunnelLists \ {"file"})

\* App draws a page for these views, and nothing for any other.
Renders(v) ==
    v \in {"login", "register", "dashboard", "add-client", "clients", "edit-client", "add-tunnel", "edit-tunnel",
           "add-host", "edit-host", "help", "user-center"} \cup HostLists \cup TunnelLists

\* Where the sidebar, the header and the page itself lead.
HasFrame(v) == Renders(v) /\ v \notin {"login", "register"}
SidebarViews == {"dashboard", "clients", "domain", "user-center", "help"} \cup (TunnelLists \ {"tunnel-all"})
FirstCrumb(v) == IF v \in {"add-client", "edit-client"} THEN "clients" ELSE "dashboard"
HeaderViews(v) == {FirstCrumb(v), "user-center"}
PageViews(v) ==
    CASE v = "dashboard" -> {"add-client", "clients", "domain"}
      [] v = "clients" -> {"add-client", "edit-client", "tunnel-all", "domain-client"}
      [] v \in TunnelLists -> {"add-tunnel", "edit-tunnel"}
      [] v \in HostLists -> {"add-host", "edit-host"}
      [] v \in {"add-client", "edit-client"} -> {"clients"}
      [] v = "add-tunnel" -> {"tunnel-all"} \cup TunnelTypes
      [] v = "edit-tunnel" -> {"tunnel-all", "tcp"}
      [] v \in {"add-host", "edit-host"} -> HostLists
      [] OTHER -> {}

----------------------------------------------------------------------------
(* Calls: who made one, whether its page is still there, what came of it.   *)
(* The same call of the same page is not made again while it is under way.   *)
Call(call, by) == [call |-> call, by |-> by, mine |-> TRUE, stage |-> "sent", out |-> NoText]
Send(c) == c \notin pending /\ Cardinality(pending) < MaxPending /\ pending' = pending \cup {c}

\* What the effects of a page ask for when it is drawn.
OnMount(v) == CASE v = "dashboard" -> {Call("getDashboard", v)}
                [] v = "login" -> {Call("getPublicConfig", v)}
                [] OTHER -> {}

\* The component of App that draws a view: one TunnelList is for seven of them,
\* one DomainList for both lists of hosts.
Page(v) == CASE v \in TunnelLists \ {"tunnel-all"} -> "TunnelList"
             [] v \in HostLists -> "DomainList"
             [] OTHER -> v

\* The view becomes v, with the calls `under` still under way.  The page that
\* is there already stays as it is, a new one starts from its initial state.
Show(v, under) ==
    /\ panel' = v
    /\ IF Page(v) = Page(panel)
         THEN pending' = under /\ UNCHANGED look
         ELSE /\ pending' = {[c EXCEPT !.mine = FALSE] : c \in under} \cup OnMount(v)
              /\ waiting' = IF v = "dashboard" THEN {"page"} ELSE {}
              /\ error' = NoText /\ bell' = FALSE /\ registerLink' = FALSE
Turn == panel # "none" /\ turns < MaxTurns /\ turns' = turns + 1

----------------------------------------------------------------------------
(* The user.                                                                 *)
Goes(v) == Show(v, pending) /\ Turn /\ UNCHANGED session

NavigateSidebar == HasFrame(panel) /\ \E v \in SidebarViews : Goes(v)
NavigateHeader == HasFrame(panel) /\ \E v \in HeaderViews(panel) : Goes(v)
NavigatePage == \E v \in PageViews(panel) : Goes(v)
OpenRegister == panel = "login" /\ registerLink /\ Goes("register")
BackToLogin == panel = "register" /\ Goes("login")

\* The browser loads the application again, which forgets what is under way.
Reload ==
    /\ panel # "boot" /\ Turn
    /\ panel' = "boot" /\ pending' = {Call("getDashboard", "boot")}
    /\ waiting' = {} /\ error' = NoText /\ bell' = FALSE /\ registerLink' = FALSE
    /\ UNCHANGED session

\* handleSubmit of a page, whose button is disabled until the call is answered.
Asks(v, call) ==
    /\ panel = v /\ "submit" \notin waiting
    /\ Send(Call(call, v))
    /\ waiting' = waiting \cup {"submit"} /\ error' = NoText
    /\ Turn /\ UNCHANGED <<panel, session, bell, registerLink>>
SubmitLogin == Asks("login", "login")
SubmitRegister == Asks("register", "register")
SubmitPassword == Asks("user-center", "changePassword")

\* Empty fields, a new password that is short or not the same twice.
SubmitInvalid ==
    /\ panel \in {"register", "user-center"} /\ "submit" \notin waiting /\ error # "invalid"
    /\ error' = "invalid"
    /\ UNCHANGED <<panel, session, pending, waiting, bell, registerLink, turns>>

\* handleLogout: the view changes when the call is over.
Logout ==
    /\ HasFrame(panel)
    /\ Send(Call("logout", "header"))
    /\ Turn /\ UNCHANGED <<panel, session, look>>

\* The bell is in the header whose first crumb is the dashboard; opening the
\* popover asks for the list, closing it does not take that back.
OpenBell ==
    /\ HasFrame(panel) /\ FirstCrumb(panel) = "dashboard" /\ ~bell
    /\ Send(Call("getNotifications", "bell"))
    /\ bell' = TRUE /\ waiting' = waiting \cup {"bell"}
    /\ Turn /\ UNCHANGED <<panel, session, error, registerLink>>
CloseBell == bell /\ bell' = FALSE /\ UNCHANGED <<panel, session, pending, waiting, error, registerLink, turns>>

----------------------------------------------------------------------------
(* The server, which tells a session without login from one with it; and    *)
(* calls that come to nothing before or after the server has acted.          *)
Settles(c, out) ==
    /\ pending' = (pending \ {c}) \cup {[c EXCEPT !.stage = "settled", !.out = out]}
    /\ UNCHANGED <<panel, look, turns>>
OutcomeOf(c) == Outcome(c.call, session # "none", session = "admin")

ServeLogin ==
    \E c \in pending :
       /\ c.call = "login" /\ c.stage = "sent"
       /\ \/ session' \in {"admin", "user"} /\ Settles(c, "accepted")
          \/ Settles(c, "refused") /\ UNCHANGED session
ServeLogout ==
    \E c \in pending :
       c.call = "logout" /\ c.stage = "sent" /\ session' = "none" /\ Settles(c, "data")
\* The answers with a status of their own say whether it was done.
ServeCall ==
    \E c \in pending :
       /\ c.call \notin {"login", "logout"} /\ c.stage = "sent"
       /\ \E out \in IF c.call \in {"register", "changePassword"} /\ OutcomeOf(c) = "data"
                     THEN {"accepted", "refused"} ELSE {OutcomeOf(c)} :
             Settles(c, out)
       /\ UNCHANGED session
NoAnswer ==
    \E c \in pending : c.out # "network" /\ Settles(c, "network") /\ UNCHANGED session

\* Other tabs, the end of the session, a restart of nps.
OtherTab == Turn /\ session' \in {"none", "admin", "user"} \ {session} /\ UNCHANGED <<panel, pending, look>>

----------------------------------------------------------------------------
(* What waits for the promises.  The view is changed by a page that is no   *)
(* longer there just as well; its own state is not.                          *)
Ready(by) == {c \in pending : c.by = by /\ c.stage = "settled"}
Ends(c, what, message) ==
    /\ pending' = pending \ {c} /\ UNCHANGED <<panel, bell>>
    /\ waiting' = IF c.mine THEN waiting \ {what} ELSE waiting
    /\ error' = IF c.mine /\ message # NoText THEN message ELSE error

BootArrives ==
    \E c \in Ready("boot") :
       /\ Show(IF c.out = "data" THEN "dashboard" ELSE "login", pending \ {c})
       /\ UNCHANGED <<session, turns>>
PublicConfigArrives ==
    \E c \in Ready("login") :
       /\ c.call = "getPublicConfig" /\ Ends(c, "none", NoText)
       /\ registerLink' \in IF c.mine /\ c.out = "data" THEN BOOLEAN ELSE {registerLink}
       /\ UNCHANGED <<session, turns>>
LoginArrives ==
    \E c \in Ready("login") :
       /\ c.call = "login" /\ UNCHANGED <<session, turns>>
       /\ IF c.out = "accepted" THEN Show("dashboard", pending \ {c})
          ELSE Ends(c, "submit", c.out) /\ UNCHANGED registerLink
RegisterArrives ==
    \E c \in Ready("register") :
       /\ UNCHANGED <<session, turns>>
       /\ IF c.out = "accepted" THEN Show("login", pending \ {c})
          ELSE Ends(c, "submit", c.out) /\ UNCHANGED registerLink
DashboardArrives ==
    \E c \in Ready("dashboard") :
       /\ UNCHANGED <<session, turns>>
       /\ IF c.out = "notLoggedIn" THEN Show("login", pending \ {c})
          ELSE Ends(c, "page", IF c.out = "data" THEN NoText ELSE c.out) /\ UNCHANGED registerLink
PasswordArrives ==
    \E c \in Ready("user-center") :
       Ends(c, "submit", IF c.out = "accepted" THEN NoText ELSE c.out) /\ UNCHANGED <<session, registerLink, turns>>
LogoutArrives ==
    \E c \in Ready("header") : Show("login", pending \ {c}) /\ UNCHANGED <<session, turns>>
NotesArrive ==
    \E c \in Ready("bell") : Ends(c, "bell", NoText) /\ UNCHANGED <<session, registerLink, turns>>

----------------------------------------------------------------------------
AppInit ==
    /\ panel = "boot" /\ session \in {"none", "admin", "user"} /\ pending = {Call("getDashboard", "boot")}
    /\ waiting = {} /\ error = NoText /\ bell = FALSE /\ registerLink = FALSE /\ turns = 0
AppIdle ==
    /\ panel = "none" /\ session = "none" /\ pending = {}
    /\ waiting = {} /\ error = NoText /\ bell = FALSE /\ registerLink = FALSE /\ turns = 0

Navigates == NavigateSidebar \/ NavigateHeader \/ NavigatePage \/ OpenRegister \/ BackToLogin \/ Reload
Clicks == SubmitLogin \/ SubmitRegister \/ SubmitPassword \/ SubmitInvalid \/ Logout \/ OpenBell \/ CloseBell
Settle == ServeLogin \/ ServeLogout \/ ServeCall \/ NoAnswer
Arrives == BootArrives \/ PublicConfigArrives \/ LoginArrives \/ RegisterArrives \/ DashboardArrives
           \/ PasswordArrives \/ LogoutArrives \/ NotesArrive
AppNext == Navigates \/ Clicks \/ Settle \/ OtherTab \/ Arrives

AppSpec == AppInit /\ [][AppNext]_appVars

----------------------------------------------------------------------------
Callers == {"boot", "login", "register", "dashboard", "user-center", "header", "bell"}
Outcomes == {NoText, "data", "accepted", "refused", "network", "notLoggedIn", "unauthorized", "forbidden",
             "requestFailed", "emptyObject"}

\* Every variable stays in its set, and nothing waits without a call.
AppTypeOK ==
    /\ panel \in {"none", "boot"} \cup TunnelTypes \/ Renders(panel)
    /\ session \in {"none", "admin", "user"} /\ {bell, registerLink} \subseteq BOOLEAN
    /\ pending \subseteq [call : Calls, by : Callers, mine : BOOLEAN, stage : {"sent", "settled"}, out : Outcomes]
    /\ waiting \subseteq {"page", "submit", "bell"} /\ error \in Outcomes \cup {"invalid"} /\ turns \in 0..MaxTurns
    /\ bell => HasFrame(panel)
    /\ waiting # {} => \E c \in pending : c.mine

\* AddTunnel, opened for no client, leads to the type of its form, and for two of
\* the types App draws nothing.
BlankTypes == {"httpProxy", "secret"}

(* A dashboard that is opened without a session does not stay: its request  *)
(* is what tells the user, unless another tab logs in or no answer comes,   *)
(* which the page says.                                                      *)
SessionEndIsSeen ==
    (session = "none" /\ \E c \in pending : c.by = "dashboard" /\ c.mine /\ c.stage = "sent")
        ~> (session # "none" \/ panel # "dashboard" \/ error = "network")
=============================================================================
