---------------------------- MODULE SessionTable ----------------------------
(***************************************************************************)
(* What the session table of the bridge promises, whatever goroutines meet *)
(* in it.  A session is opened once and for one client, and once it is     *)
(* closed it stays so.  Whoever becomes the signal of a session watches    *)
(* the client until the session it is the signal of is closed, or has      *)
(* another signal.                                                         *)
(*                                                                         *)
(* Only that much: sessions are closed by anybody at any time, and a       *)
(* connection may become the signal of a session that was just closed.     *)
(***************************************************************************)
CONSTANTS
  Ids,     \* clients
  Conns,   \* connections, each with the session it may open
  None

VARIABLES
  session, \* client -> its session, or None
  signal,  \* session -> the connection nps reaches npc over, or None
  fresh,   \* sessions that may still be opened
  watch    \* connection -> the client whose session it will close, or None

vars == <<session, signal, fresh, watch>>

Init ==
  /\ session = [i \in Ids |-> None]
  /\ signal = [s \in Conns |-> None]
  /\ fresh = Conns
  /\ watch = [c \in Conns |-> None]

\* A session of another connection is displaced, an own one never.
Open(i, s) ==
  /\ s \in fresh
  /\ fresh' = fresh \ {s}
  /\ session' = [session EXCEPT ![i] = s]
  /\ UNCHANGED <<signal, watch>>

\* The connection that opens the session is its signal at once.
OpenWithSignal(i, s) ==
  /\ s \in fresh
  /\ session[i] = None
  /\ fresh' = fresh \ {s}
  /\ session' = [session EXCEPT ![i] = s]
  /\ signal' = [signal EXCEPT ![s] = s]
  /\ watch' = [watch EXCEPT ![s] = i]

\* The session of a connection that found another one, or that was refused.
Discard(s) ==
  /\ s \in fresh
  /\ fresh' = fresh \ {s}
  /\ UNCHANGED <<session, signal, watch>>

\* c becomes the signal of the session s it found open for client i.
Attach(c, i, s) ==
  /\ c \in fresh /\ s \notin fresh
  /\ \A j \in Ids : session[j] = s => j = i
  /\ fresh' = fresh \ {c}
  /\ signal' = [signal EXCEPT ![s] = c]
  /\ watch' = [watch EXCEPT ![c] = i]
  /\ UNCHANGED session

\* The one who closes may be one of those who watch, and be done.
Close(i) ==
  /\ session' = [session EXCEPT ![i] = None]
  /\ \/ UNCHANGED watch
     \/ \E c \in Conns : watch[c] = i /\ watch' = [watch EXCEPT ![c] = None]
  /\ UNCHANGED <<signal, fresh>>

Leave(c) ==
  /\ watch[c] # None
  /\ session[watch[c]] = None \/ signal[session[watch[c]]] # c
  /\ watch' = [watch EXCEPT ![c] = None]
  /\ UNCHANGED <<session, signal, fresh>>

Next ==
  \/ \E i \in Ids, s \in Conns : Open(i, s) \/ OpenWithSignal(i, s)
  \/ \E c, s \in Conns, i \in Ids : Attach(c, i, s)
  \/ \E s \in Conns : Discard(s) \/ Leave(s)
  \/ \E i \in Ids : Close(i)

Spec == Init /\ [][Next]_vars
=============================================================================
