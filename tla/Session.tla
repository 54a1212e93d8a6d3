------------------------------ MODULE Session ------------------------------
(***************************************************************************)
(* The life of a connection between a client and the daemon: pairing or    *)
(* authentication with a stored credential, the welcome, requests under    *)
(* the scopes of the device, heartbeats, loss and reconnection.            *)
(*                                                                         *)
(* Daemon side: authenticate_first_frame, run_connection, run_writer and   *)
(* execute_request of crates/ompd/src/server.rs over module Devices.       *)
(* Client side: ClientRunner of crates/omp-control-client/src/client.rs,   *)
(* its credential store, and the buttons that start and stop it in         *)
(* crates/omp-app/src/view.rs.  A connection is a pair of queues, one each *)
(* way; once the network is cut what is in them and what is sent later is  *)
(* lost, and neither side need notice.                                     *)
(*                                                                         *)
(* Responses, subscriptions and the retry of requests are in modules       *)
(* Operations and Replication.  Versions and capabilities always agree:    *)
(* both sides are built from one protocol crate.                           *)
(***************************************************************************)
EXTENDS Devices

CONSTANTS
    Client,       \* installations of the application
    Requests,     \* the requests that are sent
    MaxSlot,      \* bound: connections at a time
    MaxInputs     \* bound: requests, faults, links that expire, clients that quit

Request == {"list_agents", "get_agent", "list_devices", "revoke_device", "launch_agent",
            "switch_session", "stop_agent", "abort", "prompt", "steer", "follow_up",
            "respond_to_ui", "acquire_lease", "release_lease"}

ASSUME SessionAssumption ==
    /\ Requests \subseteq Request
    /\ MaxSlot \in Nat /\ MaxInputs \in Nat

Slot == 1 .. MaxSlot  \* a new connection has the first slot that is free

VARIABLES
    conn,     \* per slot: the connection
    client,   \* per client: where its runner is, its authentication, its connection
    stored,   \* per client: the credential in the keyring, an Option of a device
    profile,  \* per client: whether the server is a saved profile
    inputs    \* how many inputs there were

clientVars == <<client, stored, profile>>
vars == <<storeVars, conn, clientVars, inputs>>

Message == [type : {"hello", "welcome", "request", "ping", "pong", "close"},
            link : SUBSET Link, device : Device \cup {0}, op : Request \cup {"none"}]
Msg(type) == [type |-> type, link |-> {}, device |-> 0, op |-> "none"]

NoConn == [at |-> "closed", client |-> {}, device |-> 0, op |-> "none", target |-> 0,
           quiet |-> 0, behind |-> FALSE, writer |-> FALSE, up |-> FALSE,
           to_server |-> << >>, to_client |-> << >>, why |-> "none", revoked |-> {}]
Off == [at |-> "off", source |-> {}, active |-> {}, slot |-> {}]

Input == inputs < MaxInputs /\ inputs' = inputs + 1

\* A connection is forgotten when both ends are done with it.
Settle(r) == IF r.at = "closed" /\ r.client = {} THEN NoConn ELSE r

\* What is sent on a connection that is cut is lost.
ToServer(r, m) == IF r.up THEN [r EXCEPT !.to_server = Append(@, m)] ELSE r
ToClient(r, m) == IF r.up THEN [r EXCEPT !.to_client = Append(@, m)] ELSE r

SetConn(s, r) == conn' = [conn EXCEPT ![s] = Settle(r)]

---------------------------------------------------------------------------
\* The operator and the application's buttons.

CreatePairing(k) ==
    /\ create_pairing(k)
    /\ UNCHANGED <<conn, clientVars, inputs>>

LinkExpires(k) ==
    /\ Expire(k)
    /\ Input
    /\ UNCHANGED <<conn, clientVars>>

\* The keyring, which has one entry per server: load and save.
Load(c) == stored[c]
Save(c, d) == stored' = [stored EXCEPT ![c] = {d}]

\* fn authentication at the top of the loop of run: the active credential, or
\* the pairing link, or the stored credential, which becomes active.
Authenticate(c, source, active) ==
    IF active = {} /\ source = {}
    THEN IF Load(c) = {} THEN [Off EXCEPT !.at = "stopped"]
         ELSE [Off EXCEPT !.at = "connecting", !.active = Load(c)]
    ELSE [at |-> "connecting", source |-> source, active |-> active, slot |-> {}]

\* Links that were printed by `ompd pair`, for the user to enter.
Issued(k) == pairings[k] # "none"

\* save_profile: one profile per server.
SaveProfile(c) == profile' = [profile EXCEPT ![c] = TRUE]

\* The two ways to configure a runner: with the secret of a link, or with what
\* the keyring has for the server of a profile.
PairingConfig(c, k) == Authenticate(c, {k}, {})
StoredConfig(c) == Authenticate(c, {}, {})

\* The button Pair and connect.  Its test of expires_at_ms is against the
\* clock of the client, which may be behind.  The profile is saved first; if
\* that fails the error is shown, and ConnectSaved will not be asked for.
PairAndConnect(c, k) ==
    /\ client[c].at = "off"
    /\ Issued(k)
    /\ SaveProfile(c)
    /\ client' = [client EXCEPT ![c] = PairingConfig(c, k)]
    /\ UNCHANGED <<storeVars, conn, stored, inputs>>

\* A button of Saved servers; reading the keyring may fail.
ConnectSaved(c) ==
    /\ client[c].at = "off"
    /\ profile[c]
    /\ \/ /\ client' = [client EXCEPT ![c] = StoredConfig(c)]
          /\ UNCHANGED inputs
       \/ /\ client' = [client EXCEPT ![c].at = "stopped"]
          /\ Input
    /\ UNCHANGED <<storeVars, conn, stored, profile>>

\* Mutant of Leave: the socket outlives the turn of the loop.
LeaveOpen(c) ==
    conn' = [s \in Slot |->
                IF client[c].slot = {s} THEN ToServer(conn[s], Msg("close")) ELSE conn[s]]

\* The client is done with its connection: the socket is closed or dropped.  (After
\* an error the code drops it only when the wait before the next attempt ends, and
\* reads nothing from it meanwhile.)
Leave(c) ==
    conn' = [s \in Slot |->
                IF client[c].slot = {s}
                THEN Settle([ToServer(conn[s], Msg("close")) EXCEPT !.client = {}])
                ELSE conn[s]]

\* The button Disconnect, in any state of the runner, or the application ends.
Quit(c) ==
    /\ client[c].at # "off"
    /\ Input
    /\ Leave(c)
    /\ client' = [client EXCEPT ![c] = Off]
    /\ UNCHANGED <<storeVars, stored, profile>>

---------------------------------------------------------------------------
\* The client's runner.

\* connect, and the hello of handshake with the authentication of this turn.
Connect(c, s) ==
    /\ client[c].at = "connecting"
    /\ conn[s] = NoConn
    /\ \A t \in Slot : t < s => conn[t] # NoConn
    /\ conn' = [conn EXCEPT ![s] =
          [NoConn EXCEPT
              !.at = "upgraded", !.client = {c}, !.up = TRUE,
              !.to_server = << [Msg("hello") EXCEPT
                  !.link = IF client[c].active = {} THEN client[c].source ELSE {},
                  !.device = IF client[c].active = {} THEN 0
                             ELSE CHOOSE d \in client[c].active : TRUE] >>,
              !.revoked = {d \in DOMAIN devices : devices[d].revoked}]]
    /\ client' = [client EXCEPT ![c].at = "hello", ![c].slot = {s}]
    /\ UNCHANGED <<storeVars, stored, profile, inputs>>

\* Mutant of Disconnected: an error before the welcome ends the runner.
DisconnectedForGood(c) ==
    [client[c] EXCEPT !.at = IF @ = "connected" THEN "waiting" ELSE "stopped", !.slot = {}]

\* A transport error in any state: the runner waits and tries again.
Disconnected(c) == [client[c] EXCEPT !.at = "waiting", !.slot = {}]

ConnectFails(c) ==
    /\ client[c].at = "connecting"
    /\ Input
    /\ client' = [client EXCEPT ![c] = Disconnected(c)]
    /\ UNCHANGED <<storeVars, conn, stored, profile>>

\* The sleep of wait_before_reconnect ends; the loop of run goes round.
Reconnect(c) ==
    /\ client[c].at = "waiting"
    /\ client' = [client EXCEPT ![c] = Authenticate(c, client[c].source, client[c].active)]
    /\ UNCHANGED <<storeVars, conn, stored, profile, inputs>>

Waits(c, type) ==
    /\ client[c].slot # {}
    /\ \E s \in client[c].slot : conn[s].to_client # << >> /\ Head(conn[s].to_client).type = type

TheSlot(c) == CHOOSE s \in client[c].slot : TRUE
Popped(c) == [conn[TheSlot(c)] EXCEPT !.to_client = Tail(@)]

\* Mutant of AcceptCredential: an error of the keyring is not reported.
AcceptUnsaved(c, d, saved) ==
    /\ stored' = [stored EXCEPT ![c] = IF client[c].active = {} /\ saved THEN {d} ELSE @]
    /\ client' = [client EXCEPT ![c].at = "connected", ![c].active = {d}]
    /\ SetConn(TheSlot(c), Popped(c))

\* fn accept_credential: the credential a pairing issued is saved before the
\* client is connected, and a save that fails ends the runner.
AcceptCredential(c, d, saved) ==
    IF client[c].active = {} /\ ~saved
    THEN /\ client' = [client EXCEPT ![c] = [Off EXCEPT !.at = "stopped"]]
         /\ Leave(c)
         /\ UNCHANGED stored
    ELSE /\ IF client[c].active = {} THEN Save(c, d) ELSE UNCHANGED stored
         /\ client' = [client EXCEPT ![c].at = "connected", ![c].active = {d}]
         /\ SetConn(TheSlot(c), Popped(c))

ReadWelcome(c) ==
    /\ Waits(c, "welcome")
    /\ client[c].at = "hello"
    /\ \/ AcceptCredential(c, Head(conn[TheSlot(c)].to_client).device, TRUE) /\ UNCHANGED inputs
       \/ AcceptCredential(c, Head(conn[TheSlot(c)].to_client).device, FALSE) /\ Input
    /\ UNCHANGED <<storeVars, profile>>

\* The server closed, in answer to the hello or later.
ReadClose(c) ==
    /\ Waits(c, "close")
    /\ Leave(c)
    /\ client' = [client EXCEPT ![c] = Disconnected(c)]
    /\ UNCHANGED <<storeVars, stored, profile, inputs>>

\* The socket's library answers a ping while the runner reads.
ReadPing(c) ==
    /\ Waits(c, "ping")
    /\ SetConn(TheSlot(c), ToServer(Popped(c), Msg("pong")))
    /\ UNCHANGED <<storeVars, clientVars, inputs>>

\* The client notices the cut: a read or a write fails.
LoseConnection(c) ==
    /\ client[c].slot # {}
    /\ ~conn[TheSlot(c)].up
    /\ Leave(c)
    /\ client' = [client EXCEPT ![c] = Disconnected(c)]
    /\ UNCHANGED <<storeVars, stored, profile, inputs>>

\* The page of devices lists them all and offers to revoke every other one.
Revocable(c) == (DOMAIN devices) \ client[c].active

\* The methods of AppActions: each makes one request, about an agent or a device.
RequestFor(op, d) == [Msg("request") EXCEPT !.op = op, !.device = d]

\* A request of the application.
SendRequest(c, op, d) ==
    /\ client[c].at = "connected"
    /\ IF op = "revoke_device" THEN d \in Revocable(c) ELSE d = 0
    /\ Input
    /\ SetConn(TheSlot(c), ToServer(conn[TheSlot(c)], RequestFor(op, d)))
    /\ UNCHANGED <<storeVars, clientVars>>

---------------------------------------------------------------------------
\* The daemon's connection task and its writer.

Unread(s, type) == conn[s].to_server # << >> /\ Head(conn[s].to_server).type = type

\* The connection ends on the daemon's side.
Closed(r) == [ToClient(r, Msg("close")) EXCEPT
                 !.at = "closed", !.writer = FALSE, !.quiet = 0, !.behind = FALSE,
                 !.to_server = << >>]

\* Mutant of Read: the reader does not tell the writer what it reads.
ReadSilently(s) == [conn[s] EXCEPT !.to_server = Tail(@)]

\* A message was read: the writer is told of the activity.
Read(s) == [conn[s] EXCEPT !.to_server = Tail(@), !.quiet = 0, !.behind = FALSE]

\* authenticate_first_frame, on the hello every client sends first: accepted,
\* or the connection is closed without a reason.
ReadHello(s) ==
    /\ conn[s].at = "upgraded"
    /\ conn[s].to_server # << >>
    /\ LET hello == Head(conn[s].to_server)
           accept(d) == SetConn(s, [Read(s) EXCEPT !.at = "welcome", !.device = d])
       IN  \/ /\ hello.link # {}
              /\ exchange_pairing(CHOOSE k \in hello.link : TRUE)
              /\ accept(Len(devices) + 1)
           \/ /\ hello.link = {} /\ authenticate_device(hello.device)
              /\ accept(hello.device)
              /\ UNCHANGED storeVars
           \/ /\ \/ \E k \in hello.link : ~Redeemable(k)
                 \/ hello.link = {} /\ ~authenticate_device(hello.device)
              /\ SetConn(s, Closed(conn[s]))
              /\ UNCHANGED storeVars
    /\ UNCHANGED <<clientVars, inputs>>

\* authentication_timeout: the hello was lost, or it is late.
AuthenticationTimeout(s) ==
    /\ conn[s].at = "upgraded"
    /\ IF conn[s].up THEN Input ELSE UNCHANGED inputs
    /\ SetConn(s, Closed(conn[s]))
    /\ UNCHANGED <<storeVars, clientVars>>

\* The welcome is sent and the writer started.  The time of the connection's
\* first activity is taken before the heartbeat's timer starts.
SendWelcome(s) ==
    /\ conn[s].at = "welcome"
    /\ SetConn(s, [ToClient(conn[s], [Msg("welcome") EXCEPT !.device = conn[s].device])
                      EXCEPT !.at = "open", !.writer = TRUE, !.quiet = 1])
    /\ UNCHANGED <<storeVars, clientVars, inputs>>

\* fn authorized: the scope each request needs.
RequiredScope(op) ==
    CASE op \in {"list_agents", "get_agent"} -> "observe"
      [] op \in {"list_devices", "revoke_device"} -> "administer_devices"
      [] op \in {"launch_agent", "switch_session"} -> "mutate_session"
      [] op \in {"stop_agent", "abort"} -> "stop_agent"
      [] op \in {"prompt", "steer", "follow_up"} -> "prompt"
      [] OTHER -> "answer_ui"

\* Mutant of authorized: every paired device may see and manage devices.
authorized_devices(d, op) ==
    RequiredScope(op) \in devices[d].scopes \cup {"administer_devices"}

\* The scopes are those of the record read at authentication; no operation
\* changes the scopes of a device.
authorized(d, op) == RequiredScope(op) \in devices[d].scopes

\* handle_client_frame: an authorized request occupies the task until it is
\* executed; another is answered at once with an error.
ReadRequest(s) ==
    /\ conn[s].at = "open"
    /\ Unread(s, "request")
    /\ LET request == Head(conn[s].to_server)
       IN  SetConn(s, IF authorized(conn[s].device, request.op)
                      THEN [Read(s) EXCEPT !.at = "busy", !.op = request.op,
                                           !.target = request.device]
                      ELSE Read(s))
    /\ UNCHANGED <<storeVars, clientVars, inputs>>

\* The request has been executed.  If the writer has ended in the meantime the
\* task sees it now.
FinishRequest(s) ==
    /\ conn[s].at = "busy"
    /\ IF conn[s].op = "revoke_device" THEN revoke_device(conn[s].target)
       ELSE UNCHANGED storeVars
    /\ LET idle == [conn[s] EXCEPT !.op = "none", !.target = 0, !.at = "open",
                                   !.behind = conn[s].to_server # << >>]
       IN  SetConn(s, IF conn[s].writer THEN idle
                      ELSE [idle EXCEPT !.at = "closed", !.to_server = << >>])
    /\ UNCHANGED <<clientVars, inputs>>

ReadPong(s) ==
    /\ conn[s].at = "open"
    /\ Unread(s, "pong")
    /\ SetConn(s, Read(s))
    /\ UNCHANGED <<storeVars, clientVars, inputs>>

ReadClientClose(s) ==
    /\ conn[s].at = "open"
    /\ Unread(s, "close")
    /\ SetConn(s, Closed(conn[s]))
    /\ UNCHANGED <<storeVars, clientVars, inputs>>

\* The reader notices the cut.
ServerLosesConnection(s) ==
    /\ conn[s].at = "open"
    /\ ~conn[s].up
    /\ SetConn(s, Closed(conn[s]))
    /\ UNCHANGED <<storeVars, clientVars, inputs>>

\* The task executes a request, or has had no time since to read what arrived.
Working(s) == conn[s].at = "busy" \/ conn[s].behind

\* What is sent arrives, is read and is answered within a heartbeat interval,
\* unless the network is cut; but the connection's task reads nothing while it
\* executes a request, however long that takes.
Prompt(s) ==
    conn[s].up => /\ conn[s].to_client = << >>
                  /\ conn[s].to_server # << >> => Working(s)

\* run_writer, heartbeat.tick(): more than two intervals without a message end
\* the writer, and with it the task unless that is busy.
Heartbeat(s) ==
    /\ conn[s].writer
    /\ Prompt(s)
    /\ LET quiet == conn[s].quiet + 1
           ticked == [conn[s] EXCEPT !.behind = FALSE]
           silent == [ToClient(ticked, Msg("close")) EXCEPT
                         !.writer = FALSE, !.why = IF Working(s) THEN "request" ELSE "silence"]
       IN  SetConn(s, IF quiet <= 2
                      THEN [ToClient(ticked, Msg("ping")) EXCEPT !.quiet = quiet]
                      ELSE IF conn[s].at = "busy" THEN silent
                      ELSE [silent EXCEPT !.at = "closed", !.to_server = << >>])
    /\ UNCHANGED <<storeVars, clientVars, inputs>>

---------------------------------------------------------------------------
\* Faults.

Cut(s) ==
    /\ conn[s].up
    /\ Input
    /\ SetConn(s, [conn[s] EXCEPT !.up = FALSE, !.to_server = << >>, !.to_client = << >>])
    /\ UNCHANGED <<storeVars, clientVars>>

\* The daemon ends and starts again: connections and what they were doing are
\* gone, the store stays.
DaemonRestart ==
    /\ Input
    /\ conn' = [s \in Slot |-> IF conn[s] = NoConn THEN NoConn
                               ELSE Settle([Closed(conn[s]) EXCEPT !.op = "none", !.target = 0])]
    /\ UNCHANGED <<storeVars, clientVars>>

---------------------------------------------------------------------------
Init ==
    /\ DevicesInit
    /\ conn = [s \in Slot |-> NoConn]
    /\ client = [c \in Client |-> Off]
    /\ stored = [c \in Client |-> {}]
    /\ profile = [c \in Client |-> FALSE]
    /\ inputs = 0

ClientStep(c) ==
    \/ Reconnect(c) \/ ReadWelcome(c) \/ ReadClose(c) \/ ReadPing(c)
    \/ \E s \in Slot : Connect(c, s)

ServerStep(s) ==
    \/ ReadHello(s) \/ SendWelcome(s) \/ ReadRequest(s) \/ FinishRequest(s)
    \/ ReadPong(s) \/ ReadClientClose(s) \/ AuthenticationTimeout(s)

Next ==
    \/ \E k \in Link : CreatePairing(k) \/ LinkExpires(k)
    \/ \E c \in Client :
          \/ ClientStep(c)
          \/ \E k \in Link : PairAndConnect(c, k)
          \/ ConnectSaved(c) \/ Quit(c) \/ ConnectFails(c) \/ LoseConnection(c)
          \/ \E op \in Requests, d \in Device \cup {0} : SendRequest(c, op, d)
    \/ \E s \in Slot : ServerStep(s) \/ ServerLosesConnection(s) \/ Heartbeat(s) \/ Cut(s)
    \/ DaemonRestart

Spec == Init /\ [][Next]_vars

\* Both ends run their tasks, timers fire, and the network delivers what is
\* not cut.  Nothing makes either side notice a cut but the heartbeat.
FairSpec ==
    /\ Spec
    /\ \A c \in Client : WF_vars(ClientStep(c))
    /\ \A s \in Slot : WF_vars(ServerStep(s) \/ (~conn[s].up /\ Heartbeat(s)))

---------------------------------------------------------------------------
Connection ==
    [at : {"closed", "upgraded", "welcome", "open", "busy"}, client : SUBSET Client,
     device : Device \cup {0}, op : Request \cup {"none"}, target : Device \cup {0},
     quiet : 0 .. 2, behind : BOOLEAN, writer : BOOLEAN, up : BOOLEAN,
     to_server : Seq(Message), to_client : Seq(Message),
     why : {"none", "request", "silence"}, revoked : SUBSET Device]

\* Types, and that a connection and the client on it name each other: a slot is
\* left exactly when its client leaves it.
TypeOK ==
    /\ DevicesTypeOK
    /\ conn \in [Slot -> Connection]
    /\ client \in [Client ->
           [at : {"off", "connecting", "hello", "connected", "waiting", "stopped"},
            source : SUBSET Link, active : SUBSET Device, slot : SUBSET Slot]]
    /\ stored \in [Client -> SUBSET Device]
    /\ profile \in [Client -> BOOLEAN]
    /\ inputs \in 0 .. MaxInputs
    /\ \A c \in Client :
          /\ (client[c].slot # {}) <=> (client[c].at \in {"hello", "connected"})
          /\ \A s \in Slot : client[c].slot = {s} <=> conn[s].client = {c}

\* A client that reports itself connected has the credential of the device it
\* is connected as in its keyring, and the daemon knows that device: closing
\* the application at any moment after pairing does not lose the pairing
\* (accept_credential saves before set_connected).
PairedMeansStored ==
    \A c \in Client :
       client[c].at = "connected" =>
          /\ stored[c] = client[c].active
          /\ \A d \in stored[c] : d \in DOMAIN devices
          /\ \A s \in client[c].slot :
                conn[s].at \in {"open", "busy"} => stored[c] = {conn[s].device}

\* "Revoked devices cannot reconnect" (PLAN.md:668): no connection that was made
\* after a device was revoked is authenticated as that device, whatever else
\* was under way (authenticate_device checks revoked_at_ms at the hello).
RevokedStaysOut ==
    \A s \in Slot : conn[s].device \notin conn[s].revoked

\* What is executed for a device is within the scopes its pairing link was
\* created with, through exchange, stored rows, authentication and reconnection
\* (create_pairing, exchange_pairing, authorized).
GrantedOnly ==
    \A s \in Slot :
       conn[s].at = "busy" => RequiredScope(conn[s].op) \in Grants[devices[conn[s].device].from]

\* The heartbeat ends a connection whose client is out of reach, or one whose task
\* was executing a request of its client when it should have read the answer to a
\* ping: a client that reads its socket over a network that works is not taken for
\* silent by anything else (run_writer compares the time of the last message read).
HeartbeatSpares ==
    \A s \in Slot : conn[s].up /\ conn[s].client # {} => conn[s].why # "silence"

HalfOpen(c) == client[c].slot # {} /\ ~conn[TheSlot(c)].up

\* A client that waits to reconnect with a credential gets its connection back
\* once faults end, unless the user leaves, the device is revoked, or the
\* connection it is on is cut without its noticing (the loop of run retries
\* every transport error).
Reconnects ==
    \A c \in Client :
       (client[c].at = "waiting" /\ client[c].active # {}) ~>
          \/ client[c].at \in {"connected", "off"}
          \/ \E d \in client[c].active : devices[d].revoked
          \/ HalfOpen(c)
=============================================================================
