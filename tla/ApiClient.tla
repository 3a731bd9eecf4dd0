----------------------------- MODULE ApiClient -----------------------------
(* The calls the web pages make (src/api/client.ts): what a call puts in    *)
(* its form body, and what its promise settles with for each answer of the  *)
(* server.  A value is a string; undefined in the code is Undef here and '' *)
(* is NoText.                                                               *)
EXTENDS Functions

Undef == "undefined"
NoText == ""

\* A mutant of FormBody: empty parameters are sent.
FormBodyWithEmpty(params) == Restrict(params, {k \in DOMAIN params : params[k] # Undef})

\* formBody: a parameter that is undefined or '' is not sent at all.
FormBody(params) == Restrict(params, {k \in DOMAIN params : params[k] \notin {Undef, NoText}})

----------------------------------------------------------------------------
(* The functions of the client, by the controller that serves them.         *)
LoginCalls == {"login", "logout", "getPublicConfig", "register"}
UserCalls == {"getDashboard", "changePassword", "getNotifications"}
GroupWrites == {"addGroup", "editGroup", "moveGroup", "delGroup"}
GroupCalls == {"getGroups", "moveClientToGroup"} \cup GroupWrites
ClientCalls == {"getClientList", "getClient", "addClient", "editClient", "changeClientStatus", "delClient"}
TunnelCalls == {"getTunnelList", "getOneTunnel", "addTunnel", "editTunnel", "startTunnel", "stopTunnel", "delTunnel"}
HostCalls == {"getHostList", "getHost", "addHost", "editHost", "delHost"}
Calls == LoginCalls \cup UserCalls \cup GroupCalls \cup ClientCalls \cup TunnelCalls \cup HostCalls

(* What a call gets from the server when its session is not logged in, and  *)
(* what a user who is no administrator gets from the calls kept for them:   *)
(* ApiController answers JSON with a status and a message, BaseController   *)
(* redirects to the login page, which fetch follows, or stops without a     *)
(* word.  Every other call is served, with JSON.                            *)
Json(status, msg) == [status |-> status, text |-> "json", msg |-> msg]
Html == [status |-> 200, text |-> "html", msg |-> NoText]
Empty == [status |-> 200, text |-> "empty", msg |-> NoText]

Answer(call, auth, admin) ==
    CASE call = "changePassword" /\ ~auth -> Json(401, "notLoggedIn")
      [] call \in (UserCalls \cup GroupCalls) \ {"changePassword"} /\ ~auth -> Json(401, "unauthorized")
      [] call \in GroupWrites /\ auth /\ ~admin -> Json(403, "forbidden")
      [] call \in ClientCalls \cup TunnelCalls \cup HostCalls /\ ~auth -> Html
      [] call = "addClient" /\ auth /\ ~admin -> Empty
      [] OTHER -> Json(200, NoText)

(* handleResponse: an answer that is no JSON and one whose status is an     *)
(* error reject the promise; an empty answer is an object without fields.   *)
HandleResponse(res) ==
    CASE res.text = "html" -> IF res.status = 401 THEN "notLoggedIn" ELSE "requestFailed"
      [] res.text = "json" /\ res.status # 200 -> res.msg
      [] res.text = "empty" -> "emptyObject"
      [] OTHER -> "data"

\* A mutant of ChecksStatus: getDashboard leaves it to handleResponse.
ChecksStatusLess == {"getNotifications", "getGroups"}

(* Three calls look at the status before handleResponse does.  Theirs and   *)
(* changePassword's are the only errors the pages can take for the end of   *)
(* the session.                                                             *)
ChecksStatus == {"getDashboard", "getNotifications", "getGroups"}
Outcome(call, auth, admin) ==
    LET res == Answer(call, auth, admin)
    IN  IF call \in ChecksStatus /\ res.status = 401 THEN "notLoggedIn" ELSE HandleResponse(res)
=============================================================================
