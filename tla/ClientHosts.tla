---------------------------- MODULE ClientHosts -----------------------------
(***************************************************************************)
(* The clients and their hosts and tunnels, which the connection limit and *)
(* the traffic of a client are about (lib/file/obj.go).                    *)
(*                                                                         *)
(* A host is one record, shared by the database and every handler that     *)
(* serves it: when an administrator gives it to another client, those      *)
(* handlers see the new one the next time they read host.Client.           *)
(***************************************************************************)

CONSTANTS
  Clients,
  Hosts,      \* hosts and tunnels
  MadeFor     \* host -> the client it is made for

ASSUME HostsAssumption == MadeFor \in [Hosts -> Clients]

VARIABLE owner   \* host -> its client

OwnerOK == owner \in [Hosts -> Clients]

\* Edit and EditHost replace Client of the record in place.
GiveTo(h, c) ==
  /\ c # owner[h]
  /\ owner' = [owner EXCEPT ![h] = c]
=============================================================================
