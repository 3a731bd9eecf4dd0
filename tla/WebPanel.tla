------------------------------ MODULE WebPanel ------------------------------
(* The web panel: App shows one page at a time.  A behaviour opens the      *)
(* panel and goes about its views (WebApp), works on one of the lists       *)
(* (ListPage) or on one of the pages that add or edit an entry (FormPage).  *)
(* The pages share the calls of ApiClient and the views they lead to.        *)
EXTENDS FormPage, ListPage, WebApp

WebInit ==
    \/ FormInit /\ ListIdle /\ AppIdle
    \/ FormIdle /\ ListInit /\ AppIdle
    \/ FormIdle /\ ListIdle /\ AppInit

WebNext ==
    \/ FormNext /\ UNCHANGED <<listVars, appVars>>
    \/ ListNext /\ UNCHANGED <<formVars, appVars>>
    \/ AppNext /\ UNCHANGED <<formVars, listVars>>

webVars == <<formVars, listVars, appVars>>
\* As long as calls are under way, the server answers one, or one fails, or the
\* browser runs what waits for one.
WebSpec == WebInit /\ [][WebNext]_webVars
                   /\ WF_webVars((Settle \/ Arrives) /\ UNCHANGED <<formVars, listVars>>)

----------------------------------------------------------------------------
\* Every variable of the three parts stays in its set.
TypeOK == FormTypeOK /\ ListTypeOK /\ AppTypeOK

(* Wherever the sidebar, the header, a page, a save or the answer to a call *)
(* leads, App draws a page.  The exception is AddTunnel for no client, when *)
(* its type is named otherwise in the sidebar.                               *)
EveryViewDrawn ==
    /\ panel \in {"none", "boot"} \/ Renders(panel) \/ panel \in BlankTypes
    /\ view \in {"none", "form"} \/ Renders(view)
       \/ (view \in BlankTypes /\ form = "AddTunnel" /\ opened = "0")
=============================================================================
