----------------------------- MODULE MCWebPanel -----------------------------
(* The web panel with two configurations of nps, all allowed or little of   *)
(* it, two entries in a list and at most two groups.                         *)
EXTENDS WebPanel

MCForms == ClientForms \cup TunnelForms \cup HostForms
\* One field of each kind that the pages and the handlers treat alike.
MCTypable == {"p", "web_username", "vkey", "group_id", "max_conn", "type", "client_id", "port",
              "password", "server_ip", "local_proxy", "scheme", "location", "cert_file_path"}
MCTyped == [f \in MCForms |-> IF f \in EditForms THEN 1 ELSE 2]
MCSubmits == [f \in MCForms |-> IF f \in EditForms THEN 1 ELSE 2]
MCSites == {{"allow_flow_limit", "allow_rate_limit", "allow_connection_num_limit", "allow_tunnel_num_limit",
             "allow_user_login", "allow_user_change_username", "allow_multi_ip", "allow_local_proxy"},
            {"allow_user_login", "allow_flow_limit", "https_just_proxy"}}

MCFiled == "clients" :> {(1 :> 0) @@ (2 :> 1)}
           @@ "tunnels" :> {(1 :> 1) @@ (2 :> 1), (1 :> 1) @@ (2 :> 2)}
           @@ "hosts" :> {(1 :> 1) @@ (2 :> 1), (1 :> 1) @@ (2 :> 2)}
MCActs == "clients" :> 3 @@ "tunnels" :> 4 @@ "hosts" :> 4
MCFetches == "clients" :> 1 @@ "tunnels" :> 2 @@ "hosts" :> 2
=============================================================================
