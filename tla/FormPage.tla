------------------------------ MODULE FormPage ------------------------------
(* The six pages of the web panel that add or edit an entry: AddClient,     *)
(* EditClient, AddTunnel, EditTunnel, AddHost and EditHost, with the        *)
(* handlers of the server behind them.                                      *)
(*                                                                          *)
(* A page asks for the configuration and, to edit, for the entry; each      *)
(* answer arrives when it likes, fails, or is overtaken by the user, who    *)
(* types and saves.  Of a save the request may be lost, and so may the      *)
(* answer after the server has acted, whereupon the user may save again.    *)
(* Meanwhile another administrator changes or deletes the same entry.       *)
(*                                                                          *)
(* A value is a string.  A text that the server escapes when it stores it   *)
(* (html.EscapeString) is "a&b", "a&amp_b", "a&amp_amp_b", ..., with _ for  *)
(* the semicolon of the entity.                                             *)
EXTENDS ApiClient, Naturals, Sequences, TLC

CONSTANTS Forms,       \* the pages the user opens, one of them in a behaviour
          Sites,       \* configurations: sets of the allow_... flags that are on
          Stored,      \* the types and schemes of the entries to edit, the types to add
          Typable,     \* bound: the fields whose controls the user changes
          MaxTyped,    \* bound: values the user types, for each page
          MaxSubmits,  \* bound: saves the user asks for, for each page
          MaxOthers    \* bound: changes of the entry by somebody else

ASSUME BoundsAssumption == (\A f \in Forms : MaxTyped[f] \in Nat /\ MaxSubmits[f] \in 1..9) /\ MaxOthers \in Nat

VARIABLES
    form,      \* the page that is open
    site,      \* the flags of nps.conf that are on
    opened,    \* the client the page was opened for, "0" for none
    admin,     \* whether the session is an administrator's
    store,     \* the entries on the server, in the order of their ids
    bound,     \* the ports that tunnels added by the page listen on
    config,    \* `config` of the page: the set of its true flags
    asked,     \* the requests of the page's effects not answered yet
    snapshot,  \* the entry as the server answered it, not yet arrived
    phase,     \* "blank", "loaded" or "failed": what the page shows
    vals,      \* the state of the controls
    saving,    \* `loading`, which disables the save button
    req,       \* the save under way
    view,      \* "form", or where the page has sent the user
    touched,   \* history: the controls whose value the user chose
    stale,     \* history: the fields that changed on the server since it answered
    unkeyed,   \* history: a save was stored that the next one does not collide with
    typed, submits, others  \* counters for the bounds

env == <<form, opened, site, admin>>
db == <<store, bound>>
screen == <<config, asked, snapshot, phase, vals, view>>
formVars == <<env, db, screen, saving, req, touched, stale, unkeyed, typed, submits, others>>

----------------------------------------------------------------------------
(* The fields of each kind of entry and their values.                        *)
Limits == {"flow_limit", "rate_limit", "max_conn", "max_tunnel"}
ClientText == {"remark", "u", "p", "web_username", "web_password", "vkey"}
ClientFields == ClientText \cup Limits \cup {"group_id", "config_conn_allow", "compress", "crypt"}
TunnelText == {"remark", "server_ip", "target", "password", "local_path", "strip_pre"}
TunnelFields == TunnelText \cup {"type", "client_id", "port", "local_proxy"}
HostText == {"remark", "host", "location", "target", "header", "hostchange", "cert_file_path", "key_file_path"}
HostFields == HostText \cup {"client_id", "scheme", "local_proxy"}
Numbers == Limits \cup {"group_id", "client_id", "port", "config_conn_allow", "compress", "crypt", "local_proxy"}

ClientForms == {"AddClient", "EditClient"}
TunnelForms == {"AddTunnel", "EditTunnel"}
HostForms == {"AddHost", "EditHost"}
EditForms == {"EditClient", "EditTunnel", "EditHost"}
Fields == CASE form \in ClientForms -> ClientFields
            [] form \in TunnelForms -> TunnelFields
            [] form \in HostForms -> HostFields

Escape(v) == CASE v = "a&b" -> "a&amp_b"
               [] v = "a&amp_b" -> "a&amp_amp_b"
               [] v = "a&amp_amp_b" -> "a&amp_amp_amp_b"
               [] OTHER -> v
Escaped == {"a&b", "a&amp_b", "a&amp_amp_b", "a&amp_amp_amp_b"}
Zero(f) == IF f \in Numbers THEN "0" ELSE NoText

\* The key that AddClient makes up for its nth save.
RandomKey(n) == "random" \o ToString(n)

ASSUME FormsAssumption ==
    /\ Forms \subseteq ClientForms \cup TunnelForms \cup HostForms
    /\ \A s \in Sites : {"isAdmin", "notAdmin"} \cap s = {}
    /\ \A n \in 0..9 : RandomKey(n) \notin {NoText, Undef} \cup Escaped

\* The limits of a client, each behind its flag of the configuration.
LimitFlag == [flow_limit |-> "allow_flow_limit", rate_limit |-> "allow_rate_limit",
              max_conn |-> "allow_connection_num_limit", max_tunnel |-> "allow_tunnel_num_limit"]
AllowedLimits(c) == {l \in Limits : LimitFlag[l] \in c}

\* FIELDS_BY_TYPE: what a tunnel of a type has beside its client and server_ip.
\* (udp is as tcp, socks5 as httpProxy, p2p as secret here.)
TypeFields == [tcp |-> {"port", "target", "local_proxy"}, httpProxy |-> {"port"},
               secret |-> {"target", "password"}, file |-> {"port", "local_path", "strip_pre"}]

\* showCertFields of the host pages.
ShowCertFields(c, v) == "https_just_proxy" \notin c /\ v["scheme"] \in {"all", "https"}
Certs == {"cert_file_path", "key_file_path"}

----------------------------------------------------------------------------
(* What each page shows (its JSX), given its `config` and the state of its  *)
(* controls, and which of the controls the user can change.                 *)
AddClientShown(c, v) ==
    (ClientFields \ (Limits \cup {"web_username", "web_password"})) \cup AllowedLimits(c)
    \cup (IF "allow_user_login" \in c THEN {"web_username", "web_password"} ELSE {})

EditClientShown(c, v) ==
    {"remark", "u", "p", "vkey", "config_conn_allow", "compress", "crypt"}
    \cup (IF "notAdmin" \in c THEN {} ELSE {"group_id"})
    \cup (IF "allow_user_login" \in c THEN {"web_username", "web_password"} ELSE {})
EditClientLimits(c) == IF "isAdmin" \in c THEN AllowedLimits(c) ELSE {}
EditClientReadOnly(c) ==
    IF "isAdmin" \in c THEN {}
    ELSE {"vkey"} \cup (IF "allow_user_change_username" \in c THEN {} ELSE {"web_username"})

TunnelShown(c, v) ==
    {"type", "client_id", "remark"}
    \cup {f \in TypeFields[v["type"]] : f = "local_proxy" => "allow_local_proxy" \in c}
    \cup (IF "allow_multi_ip" \in c THEN {"server_ip"} ELSE {})
AddTunnelShown(c, v) == TunnelShown(c, v)
EditTunnelShown(c, v) == TunnelShown(c, v)

AddHostShown(c, v) ==
    {f \in HostFields : /\ f = "local_proxy" => "allow_local_proxy" \in c
                        /\ f \in Certs => ShowCertFields(c, v)}
EditHostShown(c, v) == AddHostShown(c, v)

Shown(c, v) ==
    CASE form = "AddClient" -> AddClientShown(c, v)
      [] form = "EditClient" -> EditClientShown(c, v) \cup EditClientLimits(c)
      [] form = "AddTunnel" -> AddTunnelShown(c, v)
      [] form = "EditTunnel" -> EditTunnelShown(c, v)
      [] form = "AddHost" -> AddHostShown(c, v)
      [] form = "EditHost" -> EditHostShown(c, v)

\* A new entry's client can be chosen only when the page was opened for none.
ReadOnly(c) ==
    CASE form = "EditClient" -> EditClientReadOnly(c)
      [] form = "EditTunnel" -> {"type", "client_id"}
      [] form = "EditHost" -> {"client_id"}
      [] form \in {"AddTunnel", "AddHost"} /\ opened # "0" -> {"client_id"}
      [] OTHER -> {}

(* The state the page starts from (useState), and the entry on the server.   *)
AddClientBlank == [f \in ClientFields |-> Zero(f)]
EditClientBlank == [f \in ClientFields |-> Zero(f)]
AddTunnelBlank(type) ==
    [f \in TunnelFields |-> CASE f = "type" -> type
                              [] f = "client_id" -> opened
                              [] f = "server_ip" -> "0.0.0.0"
                              [] OTHER -> Zero(f)]
EditTunnelBlank == [AddTunnelBlank("tcp") EXCEPT !["client_id"] = "0"]
AddHostBlank ==
    [f \in HostFields |-> CASE f = "scheme" -> "all"
                            [] f = "client_id" -> opened
                            [] OTHER -> Zero(f)]
EditHostBlank == [AddHostBlank EXCEPT !["client_id"] = "0"]

StoredClient == [f \in ClientFields |-> CASE f = "vkey" -> "key"
                                          [] f \in ClientText \ {"vkey"} -> "a&amp_b"
                                          [] OTHER -> "1"]
StoredTunnel(type) ==
    [f \in TunnelFields |-> CASE f = "type" -> type
                              [] f = "client_id" -> "own"
                              [] f = "server_ip" -> "10.0.0.1"
                              [] f = "remark" -> "a&amp_b"
                              [] f \in TypeFields[type] -> IF f \in Numbers THEN "1" ELSE "a&amp_b"
                              [] OTHER -> Zero(f)]
StoredHost(scheme) ==
    [f \in HostFields |-> CASE f = "scheme" -> scheme
                            [] f = "client_id" -> "own"
                            [] f = "local_proxy" -> "1"
                            [] f \in Certs /\ scheme = "http" -> NoText
                            [] OTHER -> "a&amp_b"]

Types == DOMAIN TypeFields
Schemes == {"all", "http", "https"}
NoReq == [stage |-> "none"]

FormInit ==
    /\ form \in Forms /\ site \in Sites /\ admin \in BOOLEAN
    /\ opened \in IF form \in {"AddTunnel", "AddHost"} THEN {"0", "own"} ELSE {"0"}
    /\ CASE form = "AddClient" -> vals = AddClientBlank /\ store = <<>>
         [] form = "EditClient" -> vals = EditClientBlank /\ store = <<StoredClient>>
         [] form = "AddTunnel" -> (\E type \in Types \cap Stored : vals = AddTunnelBlank(type)) /\ store = <<>>
         [] form = "EditTunnel" -> vals = EditTunnelBlank /\ \E type \in Types \cap Stored : store = <<StoredTunnel(type)>>
         [] form = "AddHost" -> vals = AddHostBlank /\ store = <<>>
         [] form = "EditHost" -> vals = EditHostBlank /\ \E scheme \in Schemes \cap Stored : store = <<StoredHost(scheme)>>
    /\ asked = {"config"} \cup (IF form \in EditForms THEN {"load"} ELSE {})
                         \cup (IF form \in {"AddTunnel", "AddHost"} /\ opened = "0" THEN {"clients"} ELSE {})
    /\ config = {} /\ snapshot = NoReq /\ phase = "blank" /\ view = "form"
    /\ saving = FALSE /\ req = NoReq /\ bound = {}
    /\ touched = {} /\ stale = {} /\ unkeyed = FALSE
    /\ typed = 0 /\ submits = 0 /\ others = 0

\* None of the six pages is open.
FormIdle ==
    /\ form = "none" /\ site = {} /\ opened = "0" /\ admin = FALSE /\ store = <<>> /\ bound = {}
    /\ config = {} /\ asked = {} /\ snapshot = NoReq /\ phase = "blank" /\ vals = <<>> /\ view = "none"
    /\ saving = FALSE /\ req = NoReq /\ touched = {} /\ stale = {} /\ unkeyed = FALSE
    /\ typed = 0 /\ submits = 0 /\ others = 0

----------------------------------------------------------------------------
(* The effects of the page.  A configuration or a list of clients that      *)
(* cannot be had is passed over in silence: its answer never arrives here.  *)
(* What arrives after the page was left changes nothing.                     *)
ConfigArrives ==
    /\ view = "form" /\ "config" \in asked
    /\ config' = site \cup {IF admin THEN "isAdmin" ELSE "notAdmin"}
    /\ asked' = asked \ {"config"}
    /\ UNCHANGED <<env, db, snapshot, phase, vals, view, saving, req, touched, stale, unkeyed, typed, submits, others>>

ClientsArrive ==
    /\ view = "form" /\ "clients" \in asked
    /\ asked' = asked \ {"clients"}
    /\ UNCHANGED <<env, db, config, snapshot, phase, vals, view, saving, req, touched, stale, unkeyed, typed, submits, others>>

\* The server looks the entry up; the answer is on its way.
LoadServed ==
    /\ view = "form" /\ "load" \in asked /\ snapshot = NoReq
    /\ snapshot' = IF store # <<>> THEN [stage |-> "found", entry |-> store[1]] ELSE [stage |-> "missing"]
    /\ stale' = {}
    /\ UNCHANGED <<env, db, config, asked, phase, vals, view, saving, req, touched, unkeyed, typed, submits, others>>

\* The answer replaces whatever the controls hold.
Loaded(p) ==
    /\ form = p /\ view = "form" /\ "load" \in asked /\ snapshot.stage = "found"
    /\ vals' = snapshot.entry
    /\ phase' = "loaded" /\ touched' = {}
    /\ asked' = asked \ {"load"} /\ snapshot' = NoReq
    /\ UNCHANGED <<env, db, config, view, saving, req, stale, unkeyed, typed, submits, others>>
LoadClient == Loaded("EditClient")
LoadTunnel == Loaded("EditTunnel")
LoadHost == Loaded("EditHost")

\* No such entry, not the user's, no session, or no answer at all.
LoadFails ==
    /\ view = "form" /\ "load" \in asked /\ snapshot.stage # "found"
    /\ phase' = "failed" /\ asked' = asked \ {"load"} /\ snapshot' = NoReq
    /\ UNCHANGED <<env, db, config, vals, view, saving, req, touched, stale, unkeyed, typed, submits, others>>

----------------------------------------------------------------------------
(* The user.  The form is there at once, except on EditClient, which waits  *)
(* for the entry; saving disables the save button and nothing else.          *)
FormShown == view = "form" /\ phase # "failed" /\ (form = "EditClient" => phase = "loaded")

ChoicesOf(f) ==
    CASE f = "type" -> Types
      [] f = "scheme" -> Schemes
      [] f = "client_id" -> IF "clients" \in asked THEN {"0"} ELSE {"0", "own"}
      [] f \in {"config_conn_allow", "compress", "crypt", "local_proxy"} -> {"0", "1"}
      [] f \in Limits \cup {"group_id", "port"} -> {"0", "2"}
      [] OTHER -> {NoText, "new"}

\* A change after a save makes the next save another entry.
Type ==
    /\ FormShown /\ typed < MaxTyped[form]
    /\ \E f \in (Shown(config, vals) \ ReadOnly(config)) \cap Typable :
           \E v \in ChoicesOf(f) \ {vals[f]} :
              /\ vals' = [vals EXCEPT ![f] = v]
              /\ touched' = touched \cup {f}
    /\ typed' = typed + 1
    /\ unkeyed' = (unkeyed \/ (form \notin EditForms /\ submits > 0))
    /\ UNCHANGED <<env, db, config, asked, snapshot, phase, view, saving, req, stale, submits, others>>

\* What a page sends to save: the parameters, before formBody.
AddClientParams(c, v) ==
    [f \in ClientFields |-> CASE f \in Limits \ AllowedLimits(c) -> Undef
                              [] f = "group_id" /\ v[f] = "0" -> Undef
                              [] OTHER -> v[f]]

\* A mutant of EditClientParams: the password of a login that is not shown is
\* left out, as the other hidden fields are.
EditClientParamsShownOnly(c, v) ==
    LET isAdmin == "notAdmin" \notin c
        sent == {"remark", "u", "p", "config_conn_allow", "compress", "crypt"}
                \cup (IF "allow_user_login" \in c THEN {"web_password"} ELSE {})
                \cup (IF isAdmin THEN {"vkey", "group_id"} \cup AllowedLimits(c) ELSE {})
                \cup (IF isAdmin \/ "allow_user_change_username" \in c THEN {"web_username"} ELSE {})
    IN  [f \in sent |-> v[f]]

EditClientParams(c, v) ==
    LET isAdmin == "notAdmin" \notin c
        sent == {"remark", "u", "p", "web_password", "config_conn_allow", "compress", "crypt"}
                \cup (IF isAdmin THEN {"vkey", "group_id"} \cup AllowedLimits(c) ELSE {})
                \cup (IF isAdmin \/ "allow_user_change_username" \in c THEN {"web_username"} ELSE {})
    IN  [f \in sent |-> v[f]]

TunnelParams(c, v) ==
    LET sent == {"type", "client_id", "remark"} \cup (TypeFields[v["type"]] \ {"local_proxy"})
                \cup (IF "allow_multi_ip" \in c THEN {"server_ip"} ELSE {})
                \cup (IF "allow_local_proxy" \in c THEN {"local_proxy"} ELSE {})
    IN  [f \in sent |-> v[f]]

\* A mutant of HostParams: certificates only when the scheme is https.
HostParamsHttps(c, v) ==
    LET sent == (HostFields \ (Certs \cup {"local_proxy"}))
                \cup (IF "allow_local_proxy" \in c THEN {"local_proxy"} ELSE {})
                \cup (IF v["scheme"] = "https" THEN Certs ELSE {})
    IN  [f \in sent |-> v[f]]

HostParams(c, v) ==
    LET sent == (HostFields \ (Certs \cup {"local_proxy"}))
                \cup (IF "allow_local_proxy" \in c THEN {"local_proxy"} ELSE {})
                \cup (IF ShowCertFields(c, v) THEN Certs ELSE {})
    IN  [f \in sent |-> v[f]]

Submit(p, v, params) ==
    /\ form = p /\ FormShown /\ ~saving /\ submits < MaxSubmits[p]
    /\ saving' = TRUE
    /\ vals' = v
    /\ req' = [stage |-> "sent", body |-> FormBody(params), vals |-> v, phase |-> phase,
               config |-> config, touched |-> touched, shown |-> Shown(config, v)]
    /\ submits' = submits + 1
    /\ UNCHANGED <<env, db, config, asked, snapshot, phase, view, touched, stale, unkeyed, typed, others>>

\* A client without a key gets a random one, which the form keeps.
WithKey == [vals EXCEPT !["vkey"] = IF @ = NoText THEN RandomKey(submits) ELSE @]
\* A mutant of SubmitAddClient: the random key is sent but not kept.
SubmitAddClientForgets == Submit("AddClient", vals, AddClientParams(config, WithKey))
SubmitAddClient == Submit("AddClient", WithKey, AddClientParams(config, WithKey))
SubmitEditClient == Submit("EditClient", vals, EditClientParams(config, vals))
SubmitAddTunnel == Submit("AddTunnel", vals, TunnelParams(config, vals))
SubmitEditTunnel == Submit("EditTunnel", vals, TunnelParams(config, vals))
SubmitAddHost == Submit("AddHost", vals, HostParams(config, vals))
SubmitEditHost == Submit("EditHost", vals, HostParams(config, vals))

\* Where a page goes when its save was accepted.
Dest(v) ==
    CASE form \in ClientForms -> "clients"
      [] form \in TunnelForms -> IF v["client_id"] # "0" THEN "tunnel-all" ELSE v["type"]
      [] form \in HostForms -> IF v["client_id"] # "0" THEN "domain-client" ELSE "domain"

\* The answer of the save, whether or not the page is still open.
SaveArrives ==
    /\ req.stage \in {"ok", "failed"}
    /\ view' = IF req.stage = "ok" THEN Dest(req.vals) ELSE view
    /\ saving' = FALSE /\ req' = NoReq
    /\ UNCHANGED <<env, db, config, asked, snapshot, phase, vals, touched, stale, unkeyed, typed, submits, others>>

Cancel ==
    /\ FormShown
    /\ view' = Dest(vals)
    /\ UNCHANGED <<env, db, config, asked, snapshot, phase, vals, saving, req, touched, stale, unkeyed, typed, submits, others>>

\* The page of a load that failed has only the way back.
Back ==
    /\ view = "form" /\ phase = "failed"
    /\ view' = IF form \in TunnelForms /\ vals["client_id"] = "0" THEN "tcp" ELSE Dest(vals)
    /\ UNCHANGED <<env, db, config, asked, snapshot, phase, vals, saving, req, touched, stale, unkeyed, typed, submits, others>>

----------------------------------------------------------------------------
(* The server.  A parameter that is not in the body reads as "" or 0.        *)
Read(f) == IF f \notin DOMAIN req.body THEN Zero(f)
           ELSE IF f \in Numbers THEN req.body[f] ELSE Escape(req.body[f])
Posted == [f \in Fields |-> Read(f)]
\* For a user the server puts the client of the session in.
PostedOwn == [Posted EXCEPT !["client_id"] = IF admin THEN @ ELSE "own"]

Served(outcome) ==
    /\ req' = [req EXCEPT !.stage = outcome]
    /\ UNCHANGED <<env, screen, saving, touched, typed, submits, others>>
Adds(entry, outcome, again) ==
    /\ store' = Append(store, entry)
    /\ unkeyed' = (unkeyed \/ again)
    /\ Served(outcome) /\ UNCHANGED stale
\* A save from before the entry arrived, or one that resets what the page does
\* not show, leaves the page with an entry that is not the server's.
Changes(entry) ==
    /\ store' = [store EXCEPT ![1] = entry]
    /\ stale' = stale \cup {f \in Fields : entry[f] # store[1][f] /\ (req.phase = "blank" \/ f \notin req.shown)}
    /\ Served("ok") /\ UNCHANGED <<bound, unkeyed>>
Entries == {store[i] : i \in DOMAIN store}

\* The dashboard opens the page for everybody, the server lets administrators add.
ServeAddClient ==
    /\ form = "AddClient" /\ req.stage = "sent" /\ admin
    /\ \A e \in Entries : /\ e["vkey"] # Posted["vkey"]
                          /\ Posted["web_username"] # NoText => e["web_username"] # Posted["web_username"]
    /\ Adds(Posted, "ok", FALSE) /\ UNCHANGED bound

\* Only an administrator sets the key, the group and the limits.
ServeEditClient ==
    /\ form = "EditClient" /\ req.stage = "sent" /\ store # <<>>
    /\ LET kept == (IF admin THEN {} ELSE {"vkey", "group_id"} \cup Limits)
                   \cup (IF admin \/ "allow_user_change_username" \in site THEN {} ELSE {"web_username"})
       IN  Changes([f \in ClientFields |-> IF f \in kept THEN store[1][f] ELSE Posted[f]])

\* The task is stored before it is started: a start that fails is an error
\* message about a tunnel that is there, one that fails later is not told of.
\* A port that is bound is refused, and so is the key of another secret tunnel.
ServeAddTunnel ==
    /\ form = "AddTunnel" /\ req.stage = "sent"
    /\ LET t == PostedOwn
           port == IF t["type"] = "secret" THEN "0" ELSE t["port"]
       IN  /\ t["client_id"] # "0" /\ port \notin bound
           /\ \A e \in Entries : e["type"] = "secret" => e["password"] # t["password"]
           /\ \/ /\ Adds(t, "ok", t["type"] # "secret" /\ port = "0")
                 /\ bound' = bound \cup ({port} \ {"0"})
              \/ t["type"] # "secret" /\ (\E answer \in {"ok", "failed"} : Adds(t, answer, TRUE)) /\ UNCHANGED bound

ServeEditTunnel ==
    /\ form = "EditTunnel" /\ req.stage = "sent" /\ store # <<>>
    /\ PostedOwn["client_id"] # "0"
    /\ Changes(PostedOwn)

\* IsHostExist; NewHost gives an empty location its default.
ServeAddHost ==
    /\ form = "AddHost" /\ req.stage = "sent"
    /\ LET h == [PostedOwn EXCEPT !["location"] = IF @ = NoText THEN "/" ELSE @]
       IN  /\ h["client_id"] # "0"
           /\ \A e \in Entries : ~ /\ e["host"] = h["host"] /\ e["location"] = h["location"]
                                   /\ e["scheme"] \in {"all", h["scheme"]}
           /\ Adds(h, "ok", FALSE) /\ UNCHANGED bound

ServeEditHost ==
    /\ form = "EditHost" /\ req.stage = "sent" /\ store # <<>>
    /\ PostedOwn["client_id"] # "0"
    /\ Changes(PostedOwn)

\* A tunnel or host that is gone: s.error() and then AjaxOk, nothing stored.
ServeGone ==
    /\ form \in {"EditTunnel", "EditHost"} /\ req.stage = "sent" /\ store = <<>> /\ admin
    /\ Served("ok") /\ UNCHANGED <<db, stale, unkeyed>>

\* Not logged in any more, not the user's, a name, key or port in use; or the
\* request never came to the server.
ServeRefused ==
    /\ req.stage = "sent"
    /\ Served("failed") /\ UNCHANGED <<db, stale, unkeyed>>

\* The answer is lost: the page sees an error, of a save that was stored.
Lose ==
    /\ req.stage = "ok"
    /\ Served("failed") /\ UNCHANGED <<db, stale, unkeyed>>

----------------------------------------------------------------------------
(* Another administrator, who changes one field of the entry.                *)
OtherField == CASE form \in ClientForms -> "max_conn" [] form \in TunnelForms -> "server_ip" [] form \in HostForms -> "target"
OtherSaves ==
    /\ others < MaxOthers /\ (view = "form" \/ req # NoReq) /\ form \in EditForms /\ store # <<>>
    /\ store' = [store EXCEPT ![1][OtherField] = IF OtherField \in Numbers THEN "3" ELSE "other"]
    /\ stale' = stale \cup {OtherField}
    /\ others' = others + 1
    /\ UNCHANGED <<env, bound, screen, saving, req, touched, unkeyed, typed, submits>>

OtherDeletes ==
    /\ others < MaxOthers /\ (view = "form" \/ req # NoReq) /\ form \in EditForms /\ store # <<>>
    /\ store' = <<>>
    /\ others' = others + 1
    /\ UNCHANGED <<env, bound, screen, saving, req, touched, stale, unkeyed, typed, submits>>

----------------------------------------------------------------------------
Effects == ConfigArrives \/ ClientsArrive \/ LoadServed \/ LoadClient \/ LoadTunnel \/ LoadHost \/ LoadFails
Submits == SubmitAddClient \/ SubmitEditClient \/ SubmitAddTunnel \/ SubmitEditTunnel \/ SubmitAddHost \/ SubmitEditHost
Serves == ServeAddClient \/ ServeEditClient \/ ServeAddTunnel \/ ServeEditTunnel \/ ServeAddHost \/ ServeEditHost
          \/ ServeGone \/ ServeRefused \/ Lose
FormNext == Effects \/ Type \/ Submits \/ SaveArrives \/ Cancel \/ Back \/ Serves \/ OtherSaves \/ OtherDeletes

FormSpec == FormInit /\ [][FormNext]_formVars

----------------------------------------------------------------------------
Values == Escaped \cup {NoText, "new", "other", "0", "1", "2", "3", "own", "key", "0.0.0.0", "10.0.0.1", "/"}
          \cup Types \cup Schemes \cup {RandomKey(n) : n \in 0..9}

\* Every variable stays in its set; the controls are those of the page.
FormTypeOK == FormIdle \/
    /\ form \in Forms /\ opened \in {"0", "own"} /\ site \in Sites /\ admin \in BOOLEAN
    /\ DOMAIN vals = Fields /\ \A f \in Fields : vals[f] \in Values
    /\ \A i \in DOMAIN store : DOMAIN store[i] = Fields /\ \A f \in Fields : store[i][f] \in Values
    /\ config \subseteq site \cup {"isAdmin", "notAdmin"} /\ asked \subseteq {"config", "load", "clients"}
    /\ phase \in {"blank", "loaded", "failed"} /\ snapshot.stage \in {"none", "found", "missing"}
    /\ req.stage \in {"none", "sent", "ok", "failed"} /\ saving = (req.stage # "none")
    /\ req.stage # "none" => DOMAIN req.body \subseteq Fields /\ NoText \notin {req.body[f] : f \in DOMAIN req.body}
    /\ touched \subseteq Fields /\ stale \subseteq Fields /\ unkeyed \in BOOLEAN
    /\ typed \in 0..MaxTyped[form] /\ submits \in 0..MaxSubmits[form] /\ others \in 0..MaxOthers

\* The step in which the server accepts the save of an entry that it has.
Accepted == /\ req.stage = "sent" /\ req'.stage = "ok"
            /\ form \in EditForms => store # <<>>
SavedId == IF form \in EditForms THEN 1 ELSE Len(store')

\* Equal, but for the escaping that every save adds to a text.
Same(v, w) == v = w \/ {v, w} \subseteq Escaped

(* A save changes nothing on the server that its user did not change on the *)
(* page: handleSubmit sends, whatever the page hides, every field that the  *)
(* handler would otherwise reset.  What it does reset are limits, server_ip,*)
(* local_proxy and certificates that the page does not show, be it that its *)
(* configuration has not arrived.  A save before the entry arrived, and     *)
(* what somebody else changed meanwhile, are overwritten too.               *)
ResetWhenHidden == {"server_ip", "local_proxy"} \cup Certs \cup (IF admin THEN Limits ELSE {})
KeepsUntouched ==
    [][Accepted /\ form \in EditForms /\ req.phase = "loaded" =>
         \A f \in Fields \ (req.touched \cup stale) :
            (f \in ResetWhenHidden => f \in req.shown) => Same(store[1][f], store'[1][f])]_formVars

(* What the user set on the page and still sees when saving is what the     *)
(* server stores: no control is shown whose value handleSubmit leaves out or*)
(* the handler passes over.  A user may pick a group until the page learns  *)
(* that only administrators do; the client of a user's entry is the user's, *)
(* an empty location is "/", and of a password that EditClient's user        *)
(* empties nothing is said: the page says it is kept, it is stored empty.    *)
SaidToBeKept == IF form = "EditClient" THEN {"p", "web_password"} ELSE {}
TypedIsStored ==
    [][Accepted =>
         \A f \in req.touched \cap req.shown :
            \/ store'[SavedId][f] = Escape(req.vals[f])
            \/ f = "group_id" /\ ~admin /\ req.config = {}
            \/ f = "client_id" /\ ~admin
            \/ f \in {"location"} \cup SaidToBeKept /\ req.vals[f] = NoText]_formVars

(* However often the user repeats a save whose answer was lost, there is    *)
(* one new entry: the server refuses the second by the random key that the  *)
(* page keeps, by the host, by the key of a secret tunnel or by the port,   *)
(* which it cannot for a tunnel on port 0 or one that is stored and did not *)
(* come up.                                                                 *)
RetryNeverDoubles == unkeyed \/ Len(store) <= 1
=============================================================================
