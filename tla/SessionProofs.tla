---------------------------- MODULE SessionProofs ----------------------------
(***************************************************************************)
(* Proofs about Session and Devices, for any clients, links, scopes,       *)
(* requests and numbers of connections, faults and restarts: a pairing     *)
(* link makes one device, a revoked device stays out, and no request is    *)
(* executed beyond the scopes its pairing granted.                         *)
(***************************************************************************)
EXTENDS Session, FiniteSetTheorems, TLAPS

---------------------------------------------------------------------------
\* The inductive invariant.

\* Messages as they are on the wire; a device is any number.
Wire == [type : {"hello", "welcome", "request", "ping", "pong", "close"},
         link : SUBSET Link, device : Nat, op : Request \cup {"none"}]

Socket == [at : {"closed", "upgraded", "welcome", "open", "busy"}, client : SUBSET Client,
          device : Nat, op : Request \cup {"none"}, target : Nat, quiet : Nat,
          behind : BOOLEAN, writer : BOOLEAN, up : BOOLEAN, to_server : Seq(Wire),
          to_client : Seq(Wire), why : {"none", "request", "silence"}, revoked : SUBSET Nat]

\* Every row of the devices table was made by a link that is consumed, with the
\* scopes of that link.
StoreInv ==
    /\ pairings \in [Link -> {"none", "open", "expired", "consumed"}]
    /\ devices \in Seq(DeviceRecord)
    /\ \A d \in DOMAIN devices :
          /\ pairings[devices[d].from] = "consumed"
          /\ devices[d].scopes = Grants[devices[d].from]
    /\ PairingSingleUse

\* What a connection may be when the devices table is devs: it is authenticated
\* as a device of the table, as none that was revoked when it was made, and it
\* executes what that device may do.
GoodConn(r, devs) ==
    /\ r \in Socket
    /\ \A d \in r.revoked : d \in DOMAIN devs /\ devs[d].revoked
    /\ r.device \notin r.revoked
    /\ r.at \in {"welcome", "open", "busy"} => r.device \in DOMAIN devs
    /\ r.at = "busy" => RequiredScope(r.op) \in devs[r.device].scopes

ConnInv ==
    /\ DOMAIN conn = Slot
    /\ conn = [s \in Slot |-> conn[s]]
    /\ \A s \in Slot : GoodConn(conn[s], devices)

Runner == [at : {"off", "connecting", "hello", "connected", "waiting", "stopped"},
           source : SUBSET Link, active : SUBSET Nat, slot : SUBSET Slot]

\* A client is on one connection at most.
ClientInv ==
    /\ client \in [Client -> Runner]
    /\ \A c \in Client : \A s, t \in client[c].slot : s = t
    /\ stored \in [Client -> SUBSET Nat]

SessionInv == StoreInv /\ ConnInv /\ ClientInv

\* A devices table that comes later: no row is lost, a revoked one stays
\* revoked, and no scopes change.
Later(devs, next) ==
    /\ next \in Seq(DeviceRecord)
    /\ DOMAIN devs \subseteq DOMAIN next
    /\ \A d \in DOMAIN devs : /\ devs[d].revoked => next[d].revoked
                              /\ next[d].scopes = devs[d].scopes

---------------------------------------------------------------------------
\* Lemmas about connections.

LEMMA MsgWire ==
    \A type \in {"hello", "welcome", "request", "ping", "pong", "close"} : Msg(type) \in Wire
  BY DEF Msg, Wire

LEMMA NoConnGood ==
    ASSUME NEW devs PROVE GoodConn(NoConn, devs)
  BY DEF GoodConn, NoConn, Socket

LEMMA SettleGood ==
    ASSUME NEW devs, NEW r, GoodConn(r, devs) PROVE GoodConn(Settle(r), devs)
  BY NoConnGood DEF Settle

LEMMA ToServerGood ==
    ASSUME NEW devs, NEW r, GoodConn(r, devs), NEW m \in Wire
    PROVE  GoodConn(ToServer(r, m), devs)
<1>1. CASE r.up
  <2>1. r \in Socket /\ Append(r.to_server, m) \in Seq(Wire)
    BY DEF GoodConn, Socket
  <2>2. ToServer(r, m) = [r EXCEPT !.to_server = Append(r.to_server, m)]
    BY <1>1 DEF ToServer
  <2>3. ToServer(r, m) \in Socket
    BY <2>1, <2>2 DEF Socket
  <2> QED
    BY <2>1, <2>2, <2>3 DEF GoodConn, Socket
<1>2. CASE ~r.up
  BY <1>2 DEF ToServer
<1> QED
  BY <1>1, <1>2

LEMMA ToClientGood ==
    ASSUME NEW devs, NEW r, GoodConn(r, devs), NEW m \in Wire
    PROVE  GoodConn(ToClient(r, m), devs)
<1>1. CASE r.up
  <2>1. r \in Socket /\ Append(r.to_client, m) \in Seq(Wire)
    BY DEF GoodConn, Socket
  <2>2. ToClient(r, m) = [r EXCEPT !.to_client = Append(r.to_client, m)]
    BY <1>1 DEF ToClient
  <2>3. ToClient(r, m) \in Socket
    BY <2>1, <2>2 DEF Socket
  <2> QED
    BY <2>1, <2>2, <2>3 DEF GoodConn, Socket
<1>2. CASE ~r.up
  BY <1>2 DEF ToClient
<1> QED
  BY <1>1, <1>2

LEMMA ClosedGood ==
    ASSUME NEW devs, NEW r, GoodConn(r, devs) PROVE GoodConn(Closed(r), devs)
<1>1. GoodConn(ToClient(r, Msg("close")), devs)
  BY ToClientGood, MsgWire
<1> DEFINE q == ToClient(r, Msg("close"))
<1>2. Closed(r) = [q EXCEPT !.at = "closed", !.writer = FALSE, !.quiet = 0, !.behind = FALSE,
                      !.to_server = << >>]
  BY DEF Closed
<1>3. q \in Socket
  BY <1>1 DEF GoodConn
<1> DEFINE c == Closed(r)
<1> HIDE DEF q, c
<1>4. << >> \in Seq(Wire) /\ 0 \in Nat
  OBVIOUS
<1>5. /\ c \in Socket /\ c.at = "closed"
      /\ c.device = q.device /\ c.revoked = q.revoked
  <2>1. c = [q EXCEPT !.at = "closed", !.writer = FALSE, !.quiet = 0, !.behind = FALSE,
                      !.to_server = << >>]
    BY <1>2 DEF c
  <2> QED
    BY <1>3, <1>4, <2>1 DEF Socket
<1> QED
  BY <1>1, <1>5 DEF GoodConn, q, c

\* A connection stays good while the table of devices goes on.
LEMMA LaterGood ==
    ASSUME NEW devs, NEW next, Later(devs, next), NEW r, GoodConn(r, devs)
    PROVE  GoodConn(r, next)
  BY DEF Later, GoodConn

\* One connection is replaced by a good one.
LEMMA SetConnGood ==
    ASSUME ConnInv, Later(devices, devices'), NEW s, NEW r, SetConn(s, r),
           s \in Slot => GoodConn(r, devices')
    PROVE  ConnInv'
<1>1. conn' = [conn EXCEPT ![s] = Settle(r)]
  BY DEF SetConn
<1>2. DOMAIN conn' = Slot /\ conn' = [t \in Slot |-> conn'[t]]
  BY <1>1 DEF ConnInv
<1>3. ASSUME NEW t \in Slot PROVE GoodConn(conn'[t], devices')
  <2>1. CASE t = s
    <3>1. conn'[t] = Settle(r)
      BY <1>1, <2>1 DEF ConnInv
    <3> QED
      BY <3>1, <2>1, SettleGood
  <2>2. CASE t # s
    <3>1. conn'[t] = conn[t] /\ GoodConn(conn[t], devices)
      BY <1>1, <2>2 DEF ConnInv
    <3> QED
      BY <3>1, LaterGood
  <2> QED
    BY <2>1, <2>2
<1> QED
  BY <1>2, <1>3 DEF ConnInv

LEMMA ReadGood ==
    ASSUME ConnInv, NEW s \in Slot, conn[s].to_server # << >>
    PROVE  GoodConn(Read(s), devices) /\ Head(conn[s].to_server) \in Wire
<1>1. GoodConn(conn[s], devices)
  BY DEF ConnInv
<1>2. conn[s].to_server \in Seq(Wire)
  BY <1>1 DEF GoodConn, Socket
<1>3. Tail(conn[s].to_server) \in Seq(Wire) /\ Head(conn[s].to_server) \in Wire
  BY <1>2
<1> QED
  BY <1>1, <1>3 DEF Read, GoodConn, Socket

LEMMA KeepsConn ==
    ASSUME ConnInv, Later(devices, devices'), UNCHANGED conn PROVE ConnInv'
  BY LaterGood DEF ConnInv

\* The client leaves its connection.
LEMMA LeaveGood ==
    ASSUME ConnInv, Later(devices, devices'), NEW c, Leave(c) PROVE ConnInv'
<1>1. ASSUME NEW s \in Slot PROVE GoodConn(conn'[s], devices')
  <2>1. GoodConn(conn[s], devices')
    BY LaterGood DEF ConnInv
  <2>2. CASE client[c].slot # {s}
    BY <2>1, <2>2 DEF Leave
  <2>3. CASE client[c].slot = {s}
    <3> DEFINE q == ToServer(conn[s], Msg("close"))
    <3>1. GoodConn(q, devices')
      BY <2>1, ToServerGood, MsgWire
    <3>2. conn'[s] = Settle([q EXCEPT !.client = {}])
      BY <2>3 DEF Leave
    <3> HIDE DEF q
    <3>3. GoodConn([q EXCEPT !.client = {}], devices')
      BY <3>1 DEF GoodConn, Socket
    <3> QED
      BY <3>2, <3>3, SettleGood
  <2> QED
    BY <2>2, <2>3
<1> QED
  BY <1>1 DEF ConnInv, Leave

LEMMA PoppedGood ==
    ASSUME ConnInv, ClientInv, NEW c \in Client, NEW type, Waits(c, type)
    PROVE  /\ TheSlot(c) \in Slot
           /\ GoodConn(Popped(c), devices)
           /\ Head(conn[TheSlot(c)].to_client) \in Wire
<1>1. PICK s \in client[c].slot : conn[s].to_client # << >>
  BY DEF Waits
<1>2. client[c].slot \subseteq Slot
  BY DEF ClientInv, Runner
<1>3. TheSlot(c) \in client[c].slot
  BY <1>1 DEF TheSlot
<1>4. TheSlot(c) = s
  BY <1>1, <1>3 DEF ClientInv
<1>5. GoodConn(conn[s], devices)
  BY <1>1, <1>2 DEF ConnInv
<1>6. conn[s].to_client \in Seq(Wire)
  BY <1>5 DEF GoodConn, Socket
<1>7. Tail(conn[s].to_client) \in Seq(Wire) /\ Head(conn[s].to_client) \in Wire
  BY <1>1, <1>6
<1>8. Popped(c) = [conn[s] EXCEPT !.to_client = Tail(conn[s].to_client)]
  BY <1>4 DEF Popped
<1>9. GoodConn(Popped(c), devices)
  BY <1>5, <1>7, <1>8 DEF GoodConn, Socket
<1> QED
  BY <1>2, <1>3, <1>4, <1>7, <1>9

---------------------------------------------------------------------------
\* Lemmas about the store.

LEMMA SameStore ==
    ASSUME StoreInv, UNCHANGED storeVars PROVE StoreInv' /\ Later(devices, devices')
  BY DEF StoreInv, storeVars, Later, PairingSingleUse

LEMMA RowsFromLinks ==
    ASSUME StoreInv PROVE \A d \in DOMAIN devices : devices[d].from \in Link
<1>1. devices \in Seq(DeviceRecord)
  BY DEF StoreInv
<1>2. \A d \in DOMAIN devices : devices[d] \in DeviceRecord
  BY <1>1
<1> QED
  BY <1>2 DEF DeviceRecord

LEMMA CreateKeepsStore ==
    ASSUME StoreInv, NEW k \in Link, create_pairing(k) \/ Expire(k)
    PROVE  StoreInv' /\ Later(devices, devices')
<1>1. PICK v \in {"open", "expired"} : pairings' = [pairings EXCEPT ![k] = v]
  BY DEF create_pairing, Expire
<1>2. devices' = devices /\ pairings[k] # "consumed"
  BY DEF create_pairing, Expire
<1>3. \A d \in DOMAIN devices : devices[d].from \in Link
  BY RowsFromLinks
<1>4. Later(devices, devices')
  BY <1>2 DEF StoreInv, Later
<1> QED
  BY <1>1, <1>2, <1>3, <1>4 DEF StoreInv, PairingSingleUse

\* A link that is open has made no device yet.
LEMMA ExchangeKeepsStore ==
    ASSUME StoreInv, NEW k \in Link, exchange_pairing(k)
    PROVE  /\ StoreInv' /\ Later(devices, devices')
           /\ Len(devices) + 1 \in (DOMAIN devices') \ DOMAIN devices
<1> DEFINE row == [from |-> k, scopes |-> Grants[k], revoked |-> FALSE]
<1>1. row \in DeviceRecord
  BY DevicesAssumption DEF DeviceRecord
<1>2. devices' = Append(devices, row) /\ devices \in Seq(DeviceRecord)
  BY DEF exchange_pairing, StoreInv
<1>3. pairings' = [pairings EXCEPT ![k] = "consumed"] /\ pairings[k] = "open"
  BY DEF exchange_pairing, Redeemable, load_pairing_raw
<1>4. row.from = k /\ row.scopes = Grants[k]
  OBVIOUS
<1> HIDE DEF row
<1>5. /\ devices' \in Seq(DeviceRecord)
      /\ DOMAIN devices = 1 .. Len(devices) /\ Len(devices) \in Nat
      /\ DOMAIN devices' = 1 .. Len(devices) + 1
      /\ devices'[Len(devices) + 1] = row
      /\ \A d \in DOMAIN devices : devices'[d] = devices[d]
  <2>1. /\ Append(devices, row) \in Seq(DeviceRecord)
        /\ DOMAIN devices = 1 .. Len(devices) /\ Len(devices) \in Nat
    BY <1>1, <1>2
  <2>2. DOMAIN Append(devices, row) = 1 .. Len(devices) + 1
    BY <1>1, <1>2, <2>1
  <2>3. Append(devices, row)[Len(devices) + 1] = row
    BY <1>1, <1>2, <2>1
  <2>4. \A d \in 1 .. Len(devices) : Append(devices, row)[d] = devices[d]
    BY <1>1, <1>2, <2>1
  <2> QED
    BY <1>2, <2>1, <2>2, <2>3, <2>4
<1>6. \A d \in DOMAIN devices : devices[d].from \in Link /\ devices[d].from # k
  BY <1>3, <1>5, RowsFromLinks DEF StoreInv
<1>7. \A d \in DOMAIN devices' : d \in DOMAIN devices \/ d = Len(devices) + 1
  BY <1>5
<1>8. PairingSingleUse'
  BY <1>4, <1>5, <1>6, <1>7 DEF StoreInv, PairingSingleUse
<1>9. \A d \in DOMAIN devices' : /\ pairings'[devices'[d].from] = "consumed"
                                 /\ devices'[d].scopes = Grants[devices'[d].from]
  BY <1>3, <1>4, <1>5, <1>6, <1>7 DEF StoreInv
<1>10. Later(devices, devices')
  BY <1>5 DEF Later
<1>11. pairings' \in [Link -> {"none", "open", "expired", "consumed"}]
  BY <1>3 DEF StoreInv
<1> QED
  BY <1>5, <1>8, <1>9, <1>10, <1>11 DEF StoreInv

LEMMA RevokeKeepsStore ==
    ASSUME StoreInv, NEW d, revoke_device(d)
    PROVE  StoreInv' /\ Later(devices, devices')
<1>1. CASE d \notin DOMAIN devices
  BY <1>1, SameStore DEF revoke_device, storeVars
<1>2. CASE d \in DOMAIN devices
  <2>1. devices' = [devices EXCEPT ![d].revoked = TRUE] /\ pairings' = pairings
    BY <1>2 DEF revoke_device
  <2>2. devices \in Seq(DeviceRecord)
    BY DEF StoreInv
  <2>3. \A e \in DOMAIN devices : devices[e] \in DeviceRecord
    BY <2>2
  <2>4. /\ DOMAIN devices' = DOMAIN devices
        /\ \A e \in DOMAIN devices :
              /\ devices'[e] \in DeviceRecord
              /\ devices'[e].from = devices[e].from
              /\ devices'[e].scopes = devices[e].scopes
              /\ devices[e].revoked => devices'[e].revoked
    <3>1. /\ DOMAIN devices' = DOMAIN devices
          /\ devices'[d] = [devices[d] EXCEPT !.revoked = TRUE]
          /\ \A e \in DOMAIN devices : e # d => devices'[e] = devices[e]
      BY <1>2, <2>1
    <3>2. /\ devices'[d] \in DeviceRecord /\ devices'[d].from = devices[d].from
          /\ devices'[d].scopes = devices[d].scopes /\ devices'[d].revoked
      BY <1>2, <2>3, <3>1 DEF DeviceRecord
    <3> QED
      BY <2>3, <3>1, <3>2
  <2>5. devices' \in Seq(DeviceRecord)
    <3>1. Len(devices) \in Nat /\ DOMAIN devices = 1 .. Len(devices)
      BY <2>2
    <3>2. devices' \in [1 .. Len(devices) -> DeviceRecord]
      BY <2>1, <2>2, <2>4, <3>1
    <3> QED
      BY <3>1, <3>2
  <2>6. Later(devices, devices')
    BY <2>4, <2>5 DEF Later
  <2> QED
    BY <2>1, <2>4, <2>5, <2>6 DEF StoreInv, PairingSingleUse
<1> QED
  BY <1>1, <1>2

---------------------------------------------------------------------------
\* Lemmas about the runner of a client.

LEMMA AuthenticateTyped ==
    ASSUME ClientInv, NEW c \in Client, NEW source \in SUBSET Link, NEW active \in SUBSET Nat
    PROVE  Authenticate(c, source, active) \in Runner /\ Authenticate(c, source, active).slot = {}
<1>1. stored[c] \in SUBSET Nat
  BY DEF ClientInv
<1> QED
  BY <1>1 DEF Authenticate, Load, Off, Runner

LEMMA SetRunner ==
    ASSUME ClientInv, NEW c \in Client, NEW r \in Runner, \A s, t \in r.slot : s = t,
           client' = [client EXCEPT ![c] = r], stored' \in [Client -> SUBSET Nat]
    PROVE  ClientInv'
  BY DEF ClientInv

LEMMA DisconnectedTyped ==
    ASSUME ClientInv, NEW c \in Client
    PROVE  Disconnected(c) \in Runner /\ Disconnected(c).slot = {}
<1>1. client[c] \in Runner
  BY DEF ClientInv
<1> QED
  BY <1>1 DEF Disconnected, Runner

LEMMA OffTyped ==
    /\ Off \in Runner /\ Off.slot = {}
    /\ [Off EXCEPT !.at = "stopped"] \in Runner /\ [Off EXCEPT !.at = "stopped"].slot = {}
  BY DEF Off, Runner

LEMMA SameClients ==
    ASSUME ClientInv, UNCHANGED clientVars PROVE ClientInv'
  BY DEF ClientInv, clientVars

---------------------------------------------------------------------------
\* The steps that change the runner of a client and nothing else.

LEMMA RunnerStep ==
    ASSUME SessionInv, NEW c \in Client, NEW r \in Runner, \A s, t \in r.slot : s = t,
           client' = [client EXCEPT ![c] = r], UNCHANGED <<storeVars, conn, stored>>
    PROVE  SessionInv'
<1>0. StoreInv /\ ConnInv /\ ClientInv
  BY DEF SessionInv
<1>1. StoreInv' /\ Later(devices, devices')
  BY <1>0, SameStore
<1>2. ConnInv'
  BY <1>0, <1>1, KeepsConn
<1>3. ClientInv'
  <2>1. stored' \in [Client -> SUBSET Nat]
    BY <1>0 DEF ClientInv
  <2> QED
    BY <1>0, <2>1, SetRunner
<1> QED
  BY <1>1, <1>2, <1>3 DEF SessionInv

LEMMA ButtonsKeep ==
    ASSUME SessionInv, NEW c \in Client,
           \/ \E k \in Link : PairAndConnect(c, k)
           \/ ConnectSaved(c) \/ Reconnect(c) \/ ConnectFails(c)
    PROVE  SessionInv'
<1>0. ClientInv /\ client \in [Client -> Runner] /\ client[c] \in Runner
      /\ \A s, t \in client[c].slot : s = t
  BY DEF SessionInv, ClientInv
<1>1. ASSUME NEW k \in Link, PairAndConnect(c, k) PROVE SessionInv'
  <2>1. /\ client' = [client EXCEPT ![c] = Authenticate(c, {k}, {})]
        /\ UNCHANGED <<storeVars, conn, stored>>
    BY <1>1 DEF PairAndConnect, PairingConfig
  <2>2. {k} \in SUBSET Link /\ {} \in SUBSET Nat
    OBVIOUS
  <2> QED
    BY <1>0, <2>1, <2>2, AuthenticateTyped, RunnerStep
<1>2. CASE ConnectSaved(c)
  <2>1. UNCHANGED <<storeVars, conn, stored>>
    BY <1>2 DEF ConnectSaved
  <2>2. CASE client' = [client EXCEPT ![c] = StoredConfig(c)]
    <3>1. StoredConfig(c) = Authenticate(c, {}, {})
      BY DEF StoredConfig
    <3>2. {} \in SUBSET Link /\ {} \in SUBSET Nat
      OBVIOUS
    <3> QED
      BY <1>0, <2>1, <2>2, <3>1, <3>2, AuthenticateTyped, RunnerStep
  <2>3. CASE client' = [client EXCEPT ![c].at = "stopped"]
    <3>1. client' = [client EXCEPT ![c] = [client[c] EXCEPT !.at = "stopped"]]
      BY <2>3
    <3>2. [client[c] EXCEPT !.at = "stopped"] \in Runner
      BY <1>0 DEF Runner
    <3>3. [client[c] EXCEPT !.at = "stopped"].slot = client[c].slot
      BY <1>0 DEF Runner
    <3> DEFINE r == [client[c] EXCEPT !.at = "stopped"]
    <3>4. \A s, t \in r.slot : s = t
      BY <1>0, <3>3
    <3> HIDE DEF r
    <3>5. r \in Runner /\ client' = [client EXCEPT ![c] = r]
      BY <3>1, <3>2 DEF r
    <3> QED
      BY <2>1, <3>4, <3>5, RunnerStep
  <2> QED
    BY <1>2, <2>2, <2>3 DEF ConnectSaved
<1>3. CASE Reconnect(c)
  <2>1. /\ client' = [client EXCEPT ![c] = Authenticate(c, client[c].source, client[c].active)]
        /\ UNCHANGED <<storeVars, conn, stored>>
    BY <1>3 DEF Reconnect
  <2>2. client[c].source \in SUBSET Link /\ client[c].active \in SUBSET Nat
    BY <1>0 DEF Runner
  <2> QED
    BY <1>0, <2>1, <2>2, AuthenticateTyped, RunnerStep
<1>4. CASE ConnectFails(c)
  <2>1. client' = [client EXCEPT ![c] = Disconnected(c)] /\ UNCHANGED <<storeVars, conn, stored>>
    BY <1>4 DEF ConnectFails
  <2> QED
    BY <1>0, <2>1, DisconnectedTyped, RunnerStep
<1> QED
  BY <1>1, <1>2, <1>3, <1>4

---------------------------------------------------------------------------
\* The steps of a client on its connection.

LEMMA LeaveStep ==
    ASSUME SessionInv, NEW c \in Client, NEW r \in Runner, r.slot = {}, Leave(c),
           client' = [client EXCEPT ![c] = r], UNCHANGED <<storeVars, stored>>
    PROVE  SessionInv'
<1>0. StoreInv /\ ConnInv /\ ClientInv
  BY DEF SessionInv
<1>1. StoreInv' /\ Later(devices, devices')
  BY <1>0, SameStore
<1>2. ConnInv'
  BY <1>0, <1>1, LeaveGood
<1>3. stored' \in [Client -> SUBSET Nat]
  BY <1>0 DEF ClientInv
<1>4. ClientInv'
  BY <1>0, <1>3, SetRunner
<1> QED
  BY <1>1, <1>2, <1>4 DEF SessionInv

LEMMA LeavingKeeps ==
    ASSUME SessionInv, NEW c \in Client, Quit(c) \/ ReadClose(c) \/ LoseConnection(c)
    PROVE  SessionInv'
<1>0. ClientInv
  BY DEF SessionInv
<1>1. CASE Quit(c)
  BY <1>1, OffTyped, LeaveStep DEF Quit
<1>2. CASE ReadClose(c)
  BY <1>0, <1>2, DisconnectedTyped, LeaveStep DEF ReadClose
<1>3. CASE LoseConnection(c)
  BY <1>0, <1>3, DisconnectedTyped, LeaveStep DEF LoseConnection
<1> QED
  BY <1>1, <1>2, <1>3

\* A connection starts with the devices that are revoked at that moment.
LEMMA ConnectKeeps ==
    ASSUME SessionInv, NEW c \in Client, NEW s \in Slot, Connect(c, s)
    PROVE  SessionInv'
<1>0. StoreInv /\ ConnInv /\ ClientInv
  BY DEF SessionInv
<1>1. StoreInv' /\ Later(devices, devices') /\ devices' = devices
  BY <1>0, SameStore DEF Connect, storeVars
<1>2. client[c] \in Runner /\ client \in [Client -> Runner]
  BY <1>0 DEF ClientInv
<1> DEFINE hello == [Msg("hello") EXCEPT
                        !.link = IF client[c].active = {} THEN client[c].source ELSE {},
                        !.device = IF client[c].active = {} THEN 0
                                   ELSE CHOOSE d \in client[c].active : TRUE]
           gone == {d \in DOMAIN devices : devices[d].revoked}
           new == [NoConn EXCEPT !.at = "upgraded", !.client = {c}, !.up = TRUE,
                                 !.to_server = <<hello>>, !.revoked = gone]
<1>3. conn' = [conn EXCEPT ![s] = new]
  BY DEF Connect
<1>4. hello \in Wire
  <2>1. client[c].active \in SUBSET Nat /\ client[c].source \in SUBSET Link
    BY <1>2 DEF Runner
  <2>2. (IF client[c].active = {} THEN 0 ELSE CHOOSE d \in client[c].active : TRUE) \in Nat
    BY <2>1
  <2>3. (IF client[c].active = {} THEN client[c].source ELSE {}) \in SUBSET Link
    BY <2>1
  <2> QED
    BY <2>2, <2>3 DEF Msg, Wire
<1>5. gone \in SUBSET Nat /\ 0 \notin gone
  <2>1. devices \in Seq(DeviceRecord)
    BY <1>0 DEF StoreInv
  <2>2. DOMAIN devices = 1 .. Len(devices)
    BY <2>1
  <2> QED
    BY <2>1, <2>2
<1>6. \A d \in gone : d \in DOMAIN devices /\ devices[d].revoked
  OBVIOUS
<1> HIDE DEF hello, gone
<1>7. <<hello>> \in Seq(Wire)
  BY <1>4
<1>8. GoodConn(new, devices)
  <2>1. new \in Socket /\ new.at = "upgraded" /\ new.device = 0 /\ new.revoked = gone
    <3>1. NoConn \in Socket /\ NoConn.device = 0
      BY DEF NoConn, Socket
    <3>2. {c} \in SUBSET Client
      OBVIOUS
    <3> QED
      BY <1>5, <1>7, <3>1, <3>2 DEF Socket
  <2> QED
    BY <1>5, <1>6, <2>1 DEF GoodConn
<1> HIDE DEF new
<1>9. ConnInv'
  BY <1>0, <1>1, <1>3, <1>8 DEF ConnInv
<1>10. ClientInv'
  <2> DEFINE r == [client[c] EXCEPT !.at = "hello", !.slot = {s}]
  <2>1. client' = [client EXCEPT ![c] = r] /\ stored' = stored
    BY <1>2 DEF Connect
  <2>2. r \in Runner /\ r.slot = {s}
    BY <1>2 DEF Runner
  <2>3. stored' \in [Client -> SUBSET Nat]
    BY <1>0, <2>1 DEF ClientInv
  <2> HIDE DEF r
  <2> QED
    BY <1>0, <2>1, <2>2, <2>3, SetRunner
<1> QED
  BY <1>1, <1>9, <1>10 DEF SessionInv

LEMMA ReadWelcomeKeeps ==
    ASSUME SessionInv, NEW c \in Client, ReadWelcome(c)
    PROVE  SessionInv'
<1>0. StoreInv /\ ConnInv /\ ClientInv
  BY DEF SessionInv
<1> DEFINE d == Head(conn[TheSlot(c)].to_client).device
<1>1. d \in Nat /\ GoodConn(Popped(c), devices)
  BY <1>0, PoppedGood DEF ReadWelcome, Wire
<1>2. UNCHANGED storeVars /\ \E saved \in BOOLEAN : AcceptCredential(c, d, saved)
  BY DEF ReadWelcome
<1> HIDE DEF d
<1>3. CASE /\ client' = [client EXCEPT ![c] = [Off EXCEPT !.at = "stopped"]]
           /\ Leave(c)
           /\ UNCHANGED stored
  BY <1>2, <1>3, OffTyped, LeaveStep
<1>4. CASE /\ IF client[c].active = {} THEN Save(c, d) ELSE UNCHANGED stored
           /\ client' = [client EXCEPT ![c].at = "connected", ![c].active = {d}]
           /\ SetConn(TheSlot(c), Popped(c))
  <2>1. StoreInv' /\ Later(devices, devices')
    BY <1>0, <1>2, SameStore
  <2>2. ConnInv'
    <3>1. GoodConn(Popped(c), devices')
      BY <1>1, <2>1, LaterGood
    <3> QED
      BY <1>0, <1>4, <2>1, <3>1, SetConnGood
  <2>3. stored' \in [Client -> SUBSET Nat]
    BY <1>0, <1>1, <1>4 DEF Save, ClientInv
  <2> DEFINE r == [client[c] EXCEPT !.at = "connected", !.active = {d}]
  <2>4. client[c] \in Runner /\ \A s, t \in client[c].slot : s = t
    BY <1>0 DEF ClientInv
  <2>5. client' = [client EXCEPT ![c] = r]
    BY <1>0, <1>4 DEF ClientInv
  <2>6. r \in Runner /\ r.slot = client[c].slot
    BY <1>1, <2>4 DEF Runner
  <2> HIDE DEF r
  <2>7. \A s, t \in r.slot : s = t
    BY <2>4, <2>6
  <2>8. ClientInv'
    BY <1>0, <2>3, <2>5, <2>6, <2>7, SetRunner
  <2> QED
    BY <2>1, <2>2, <2>8 DEF SessionInv
<1> QED
  BY <1>2, <1>3, <1>4 DEF AcceptCredential

LEMMA ConnStep ==
    ASSUME SessionInv, UNCHANGED <<storeVars, clientVars>>, NEW s, NEW r, SetConn(s, r),
           s \in Slot => GoodConn(r, devices)
    PROVE  SessionInv'
<1>0. StoreInv /\ ConnInv /\ ClientInv
  BY DEF SessionInv
<1>1. StoreInv' /\ Later(devices, devices') /\ devices' = devices
  BY <1>0, SameStore DEF storeVars
<1>2. ConnInv'
  BY <1>0, <1>1, SetConnGood
<1> QED
  BY <1>0, <1>1, <1>2, SameClients DEF SessionInv

LEMMA ClientMessagesKeep ==
    ASSUME SessionInv, NEW c \in Client,
           ReadPing(c) \/ \E op \in Requests, d \in Device \cup {0} : SendRequest(c, op, d)
    PROVE  SessionInv'
<1>0. StoreInv /\ ConnInv /\ ClientInv
  BY DEF SessionInv
<1>1. CASE ReadPing(c)
  <2>1. GoodConn(ToServer(Popped(c), Msg("pong")), devices)
    BY <1>0, <1>1, PoppedGood, ToServerGood, MsgWire DEF ReadPing
  <2> QED
    BY <1>1, <2>1, ConnStep DEF ReadPing
<1>2. ASSUME NEW op \in Requests, NEW d \in Device \cup {0}, SendRequest(c, op, d)
      PROVE  SessionInv'
  <2>1. RequestFor(op, d) \in Wire
    <3>1. op \in Request /\ d \in Nat
      BY SessionAssumption, DevicesAssumption, FS_CardinalityType DEF Device
    <3> QED
      BY <3>1 DEF RequestFor, Msg, Wire
  <2>2. TheSlot(c) \in Slot => GoodConn(ToServer(conn[TheSlot(c)], RequestFor(op, d)), devices)
    BY <1>0, <2>1, ToServerGood DEF ConnInv
  <2> QED
    BY <1>2, <2>2, ConnStep DEF SendRequest
<1> QED
  BY <1>1, <1>2

---------------------------------------------------------------------------
\* The steps of the daemon on a connection.

\* A hello is accepted for a new device, or for one that is not revoked now.
LEMMA ReadHelloKeeps ==
    ASSUME SessionInv, NEW s \in Slot, ReadHello(s)
    PROVE  SessionInv'
<1>0. StoreInv /\ ConnInv /\ ClientInv
  BY DEF SessionInv
<1> DEFINE hello == Head(conn[s].to_server)
           accepted(d) == [Read(s) EXCEPT !.at = "welcome", !.device = d]
<1>1. conn[s].to_server # << >>
  BY DEF ReadHello
<1>2. GoodConn(Read(s), devices) /\ hello \in Wire
  BY <1>0, <1>1, ReadGood
<1>3. ClientInv'
  BY <1>0, SameClients DEF ReadHello
<1>4. ASSUME NEW d \in Nat, Later(devices, devices'), d \in DOMAIN devices',
             d \notin Read(s).revoked
      PROVE  GoodConn(accepted(d), devices')
  <2>1. GoodConn(Read(s), devices')
    BY <1>2, <1>4, LaterGood
  <2>2. /\ accepted(d) \in Socket /\ accepted(d).at = "welcome" /\ accepted(d).device = d
        /\ accepted(d).revoked = Read(s).revoked
    BY <1>4, <2>1 DEF GoodConn, Socket
  <2> HIDE DEF accepted
  <2> QED
    BY <1>4, <2>1, <2>2 DEF GoodConn
<1>5. ASSUME hello.link # {}, exchange_pairing(CHOOSE k \in hello.link : TRUE),
             SetConn(s, accepted(Len(devices) + 1))
      PROVE  SessionInv'
  <2>1. (CHOOSE k \in hello.link : TRUE) \in Link
    BY <1>2, <1>5 DEF Wire
  <2>2. /\ StoreInv' /\ Later(devices, devices')
        /\ Len(devices) + 1 \in (DOMAIN devices') \ DOMAIN devices
    BY <1>0, <1>5, <2>1, ExchangeKeepsStore
  <2>3. Len(devices) + 1 \in Nat /\ Len(devices) + 1 \notin Read(s).revoked
    <3>1. devices \in Seq(DeviceRecord)
      BY <1>0 DEF StoreInv
    <3> QED
      BY <1>2, <2>2, <3>1 DEF GoodConn
  <2>4. GoodConn(accepted(Len(devices) + 1), devices')
    BY <1>4, <2>2, <2>3
  <2> HIDE DEF accepted
  <2>5. ConnInv'
    BY <1>0, <1>5, <2>2, <2>4, SetConnGood
  <2> QED
    BY <1>3, <2>2, <2>5 DEF SessionInv
<1>6. ASSUME authenticate_device(hello.device), SetConn(s, accepted(hello.device)),
             UNCHANGED storeVars
      PROVE  SessionInv'
  <2>1. StoreInv' /\ Later(devices, devices') /\ devices' = devices
    BY <1>0, <1>6, SameStore DEF storeVars
  <2>2. hello.device \in Nat /\ hello.device \in DOMAIN devices' /\ hello.device \notin Read(s).revoked
    BY <1>2, <1>6, <2>1 DEF authenticate_device, Wire, GoodConn
  <2>3. GoodConn(accepted(hello.device), devices')
    BY <1>4, <2>1, <2>2
  <2> HIDE DEF accepted
  <2>4. ConnInv'
    BY <1>0, <1>6, <2>1, <2>3, SetConnGood
  <2> QED
    BY <1>3, <2>1, <2>4 DEF SessionInv
<1>7. ASSUME SetConn(s, Closed(conn[s])), UNCHANGED storeVars
      PROVE  SessionInv'
  <2>1. GoodConn(Closed(conn[s]), devices)
    BY <1>0, ClosedGood DEF ConnInv
  <2>2. UNCHANGED clientVars
    BY DEF ReadHello
  <2> QED
    BY <1>7, <2>1, <2>2, ConnStep
<1> HIDE DEF hello, accepted
<1> QED
  BY <1>5, <1>6, <1>7 DEF ReadHello, hello, accepted

\* A connection is closed, by the client, for the cut or for the time.
LEMMA ClosingKeeps ==
    ASSUME SessionInv, NEW s \in Slot,
           AuthenticationTimeout(s) \/ ReadClientClose(s) \/ ServerLosesConnection(s)
    PROVE  SessionInv'
<1>1. GoodConn(Closed(conn[s]), devices)
  BY ClosedGood DEF SessionInv, ConnInv
<1>2. SetConn(s, Closed(conn[s])) /\ UNCHANGED <<storeVars, clientVars>>
  BY DEF AuthenticationTimeout, ReadClientClose, ServerLosesConnection
<1> QED
  BY <1>1, <1>2, ConnStep

LEMMA SendWelcomeKeeps ==
    ASSUME SessionInv, NEW s \in Slot, SendWelcome(s)
    PROVE  SessionInv'
<1>1. GoodConn(conn[s], devices)
  BY DEF SessionInv, ConnInv
<1> DEFINE m == [Msg("welcome") EXCEPT !.device = conn[s].device]
           q == ToClient(conn[s], m)
           r == [q EXCEPT !.at = "open", !.writer = TRUE, !.quiet = 1]
<1>2. m \in Wire
  BY <1>1 DEF Msg, Wire, GoodConn, Socket
<1>3. GoodConn(q, devices)
  BY <1>1, <1>2, ToClientGood
<1>4. q.at = "welcome"
  BY <1>1 DEF SendWelcome, ToClient, GoodConn, Socket
<1>5. SetConn(s, r) /\ UNCHANGED <<storeVars, clientVars>>
  BY DEF SendWelcome
<1> HIDE DEF q
<1>6. r \in Socket /\ r.at = "open" /\ r.device = q.device /\ r.revoked = q.revoked
  BY <1>3 DEF GoodConn, Socket
<1> HIDE DEF r
<1>7. GoodConn(r, devices)
  BY <1>3, <1>4, <1>6 DEF GoodConn
<1> QED
  BY <1>5, <1>7, ConnStep

\* What is executed was authorized by the record of the device.
LEMMA ReadRequestKeeps ==
    ASSUME SessionInv, NEW s \in Slot, ReadRequest(s)
    PROVE  SessionInv'
<1>0. ConnInv
  BY DEF SessionInv
<1> DEFINE m == Head(conn[s].to_server)
           r == [Read(s) EXCEPT !.at = "busy", !.op = m.op, !.target = m.device]
<1>1. conn[s].to_server # << >> /\ conn[s].at = "open"
  BY DEF ReadRequest, Unread
<1>2. GoodConn(Read(s), devices) /\ m \in Wire
  BY <1>0, <1>1, ReadGood
<1>3. Read(s).at = "open" /\ Read(s).device = conn[s].device
  <2>1. conn[s] \in Socket
    BY <1>0 DEF ConnInv, GoodConn
  <2> QED
    BY <1>1, <2>1 DEF Read, Socket
<1>4. UNCHANGED <<storeVars, clientVars>>
  BY DEF ReadRequest
<1>5. CASE ~authorized(conn[s].device, m.op)
  <2>1. SetConn(s, Read(s))
    BY <1>5 DEF ReadRequest
  <2> QED
    BY <1>2, <1>4, <2>1, ConnStep
<1>6. CASE authorized(conn[s].device, m.op)
  <2>1. SetConn(s, r)
    BY <1>6 DEF ReadRequest
  <2>2. /\ r \in Socket /\ r.at = "busy" /\ r.device = conn[s].device
        /\ r.revoked = Read(s).revoked /\ r.op = m.op
    <3>1. m.op \in Request \cup {"none"} /\ m.device \in Nat /\ Read(s) \in Socket
      BY <1>2 DEF Wire, GoodConn
    <3> QED
      BY <1>3, <3>1 DEF Socket
  <2>3. RequiredScope(m.op) \in devices[conn[s].device].scopes
    BY <1>6 DEF authorized
  <2> HIDE DEF r, m
  <2>4. GoodConn(r, devices)
    BY <1>2, <1>3, <2>2, <2>3 DEF GoodConn
  <2> QED
    BY <1>4, <2>1, <2>4, ConnStep
<1> QED
  BY <1>5, <1>6

\* A request may revoke a device, that of another connection included.
LEMMA FinishRequestKeeps ==
    ASSUME SessionInv, NEW s \in Slot, FinishRequest(s)
    PROVE  SessionInv'
<1>0. StoreInv /\ ConnInv /\ ClientInv
  BY DEF SessionInv
<1>1. StoreInv' /\ Later(devices, devices')
  BY <1>0, SameStore, RevokeKeepsStore DEF FinishRequest
<1>2. GoodConn(conn[s], devices')
  BY <1>0, <1>1, LaterGood DEF ConnInv
<1> DEFINE later == conn[s].to_server # << >>
           idle == [conn[s] EXCEPT !.op = "none", !.target = 0, !.at = "open",
                                   !.behind = later]
           done == [idle EXCEPT !.at = "closed", !.to_server = << >>]
<1>3. conn[s].at = "busy" /\ (SetConn(s, idle) \/ SetConn(s, done))
  BY DEF FinishRequest
<1>4. conn[s] \in Socket /\ later \in BOOLEAN
  BY <1>2 DEF GoodConn
<1> HIDE DEF later
<1>5. /\ idle \in Socket /\ idle.at = "open" /\ idle.device = conn[s].device
      /\ idle.revoked = conn[s].revoked
  BY <1>4 DEF Socket
<1> HIDE DEF idle
<1>6. /\ done \in Socket /\ done.at = "closed" /\ done.device = conn[s].device
      /\ done.revoked = conn[s].revoked
  <2>1. << >> \in Seq(Wire)
    OBVIOUS
  <2> QED
    BY <1>5, <2>1 DEF Socket
<1> HIDE DEF done
<1>7. GoodConn(idle, devices') /\ GoodConn(done, devices')
  BY <1>2, <1>3, <1>5, <1>6 DEF GoodConn
<1>8. ConnInv'
  BY <1>0, <1>1, <1>3, <1>7, SetConnGood
<1>9. ClientInv'
  BY <1>0, SameClients DEF FinishRequest
<1> QED
  BY <1>1, <1>8, <1>9 DEF SessionInv

LEMMA ReadPongKeeps ==
    ASSUME SessionInv, NEW s \in Slot, ReadPong(s)
    PROVE  SessionInv'
<1>1. GoodConn(Read(s), devices)
  BY ReadGood DEF SessionInv, ReadPong, Unread
<1> QED
  BY <1>1, ConnStep DEF ReadPong

LEMMA HeartbeatKeeps ==
    ASSUME SessionInv, NEW s \in Slot, Heartbeat(s)
    PROVE  SessionInv'
<1>1. GoodConn(conn[s], devices)
  BY DEF SessionInv, ConnInv
<1> DEFINE quiet == conn[s].quiet + 1
           k == [conn[s] EXCEPT !.behind = FALSE]
           p == ToClient(k, Msg("ping"))
           ping == [p EXCEPT !.quiet = quiet]
           q == ToClient(k, Msg("close"))
           w == IF Working(s) THEN "request" ELSE "silence"
           silent == [q EXCEPT !.writer = FALSE, !.why = w]
           ended == [silent EXCEPT !.at = "closed", !.to_server = << >>]
<1>2. UNCHANGED <<storeVars, clientVars>>
  BY DEF Heartbeat
<1>3. SetConn(s, ping) \/ SetConn(s, silent) \/ SetConn(s, ended)
  BY DEF Heartbeat
<1>0. GoodConn(k, devices)
  BY <1>1 DEF GoodConn, Socket
<1> HIDE DEF k
<1>4. GoodConn(p, devices) /\ GoodConn(q, devices)
  BY <1>0, ToClientGood, MsgWire
<1>5. quiet \in Nat /\ w \in {"request", "silence"}
  BY <1>1 DEF GoodConn, Socket
<1> HIDE DEF p, q, quiet, w
<1>6. p \in Socket /\ q \in Socket
  BY <1>4 DEF GoodConn
<1>7. /\ ping \in Socket /\ ping.at = p.at /\ ping.device = p.device
      /\ ping.revoked = p.revoked /\ ping.op = p.op
  BY <1>5, <1>6 DEF Socket
<1>8. /\ silent \in Socket /\ silent.at = q.at /\ silent.device = q.device
      /\ silent.revoked = q.revoked /\ silent.op = q.op
  BY <1>5, <1>6 DEF Socket
<1> HIDE DEF ping, silent
<1>9. /\ ended \in Socket /\ ended.at = "closed" /\ ended.device = q.device
      /\ ended.revoked = q.revoked
  <2>1. << >> \in Seq(Wire)
    OBVIOUS
  <2> QED
    BY <1>8, <2>1 DEF Socket
<1> HIDE DEF ended
<1>10. GoodConn(ping, devices) /\ GoodConn(silent, devices) /\ GoodConn(ended, devices)
  BY <1>4, <1>7, <1>8, <1>9 DEF GoodConn
<1> QED
  BY <1>2, <1>3, <1>10, ConnStep

---------------------------------------------------------------------------
\* Faults.

LEMMA CutKeeps ==
    ASSUME SessionInv, NEW s \in Slot, Cut(s)
    PROVE  SessionInv'
<1>1. GoodConn(conn[s], devices) /\ conn[s] \in Socket
  BY DEF SessionInv, ConnInv, GoodConn
<1> DEFINE r == [conn[s] EXCEPT !.up = FALSE, !.to_server = << >>, !.to_client = << >>]
<1>2. SetConn(s, r) /\ UNCHANGED <<storeVars, clientVars>>
  BY DEF Cut
<1>3. << >> \in Seq(Wire)
  OBVIOUS
<1>4. /\ r \in Socket /\ r.at = conn[s].at /\ r.device = conn[s].device
      /\ r.revoked = conn[s].revoked /\ r.op = conn[s].op
  BY <1>1, <1>3 DEF Socket
<1> HIDE DEF r
<1>5. GoodConn(r, devices)
  BY <1>1, <1>4 DEF GoodConn
<1> QED
  BY <1>2, <1>5, ConnStep

LEMMA RestartKeeps ==
    ASSUME SessionInv, DaemonRestart
    PROVE  SessionInv'
<1>0. StoreInv /\ ConnInv /\ ClientInv
  BY DEF SessionInv
<1>1. StoreInv' /\ devices' = devices
  BY <1>0, SameStore DEF DaemonRestart, storeVars
<1>2. ASSUME NEW s \in Slot PROVE GoodConn(conn'[s], devices)
  <2> DEFINE q == Closed(conn[s])
             r == [q EXCEPT !.op = "none", !.target = 0]
  <2>1. conn'[s] = IF conn[s] = NoConn THEN NoConn ELSE Settle(r)
    BY DEF DaemonRestart
  <2>2. GoodConn(q, devices)
    BY <1>0, ClosedGood DEF ConnInv
  <2>3. q.at = "closed"
    <3>1. ToClient(conn[s], Msg("close")) \in Socket
      BY <1>0, ToClientGood, MsgWire DEF ConnInv, GoodConn
    <3> QED
      BY <3>1 DEF Closed, Socket
  <2> HIDE DEF q
  <2>4. r \in Socket /\ r.at = q.at /\ r.device = q.device /\ r.revoked = q.revoked
    BY <2>2 DEF GoodConn, Socket
  <2> HIDE DEF r
  <2>5. GoodConn(r, devices)
    BY <2>2, <2>3, <2>4 DEF GoodConn
  <2> QED
    BY <2>1, <2>5, SettleGood, NoConnGood
<1>3. ConnInv'
  BY <1>1, <1>2 DEF ConnInv, DaemonRestart
<1>4. ClientInv'
  BY <1>0, SameClients DEF DaemonRestart
<1> QED
  BY <1>1, <1>3, <1>4 DEF SessionInv

---------------------------------------------------------------------------
LEMMA InitSession == Init => SessionInv
<1> SUFFICES ASSUME Init PROVE SessionInv
  OBVIOUS
<1>1. StoreInv
  BY DEF Init, DevicesInit, StoreInv, PairingSingleUse
<1>2. ConnInv
  BY NoConnGood DEF Init, ConnInv
<1>3. ClientInv
  BY OffTyped DEF Init, ClientInv
<1> QED
  BY <1>1, <1>2, <1>3 DEF SessionInv

LEMMA NextSession == SessionInv /\ [Next]_vars => SessionInv'
<1> SUFFICES ASSUME SessionInv, [Next]_vars PROVE SessionInv'
  OBVIOUS
<1>0. StoreInv /\ ConnInv /\ ClientInv
  BY DEF SessionInv
<1>1. ASSUME NEW k \in Link, CreatePairing(k) \/ LinkExpires(k) PROVE SessionInv'
  <2>1. StoreInv' /\ Later(devices, devices')
    BY <1>0, <1>1, CreateKeepsStore DEF CreatePairing, LinkExpires
  <2>2. UNCHANGED conn /\ UNCHANGED clientVars
    BY <1>1 DEF CreatePairing, LinkExpires
  <2> QED
    BY <1>0, <2>1, <2>2, KeepsConn, SameClients DEF SessionInv
<1>2. ASSUME NEW c \in Client, ClientStep(c) PROVE SessionInv'
  BY <1>2, ButtonsKeep, ReadWelcomeKeeps, LeavingKeeps, ClientMessagesKeep, ConnectKeeps
     DEF ClientStep
<1>3. ASSUME NEW c \in Client,
             \/ \E k \in Link : PairAndConnect(c, k)
             \/ ConnectSaved(c) \/ ConnectFails(c)
      PROVE  SessionInv'
  BY <1>3, ButtonsKeep
<1>4. ASSUME NEW c \in Client, Quit(c) \/ LoseConnection(c) PROVE SessionInv'
  BY <1>4, LeavingKeeps
<1>5. ASSUME NEW c \in Client,
             \E op \in Requests, d \in Device \cup {0} : SendRequest(c, op, d)
      PROVE  SessionInv'
  BY <1>5, ClientMessagesKeep
<1>6. ASSUME NEW s \in Slot, ServerStep(s) PROVE SessionInv'
  BY <1>6, ReadHelloKeeps, SendWelcomeKeeps, ReadRequestKeeps, FinishRequestKeeps,
     ReadPongKeeps, ClosingKeeps DEF ServerStep
<1>7. ASSUME NEW s \in Slot, ServerLosesConnection(s) \/ Heartbeat(s) \/ Cut(s)
      PROVE  SessionInv'
  BY <1>7, ClosingKeeps, HeartbeatKeeps, CutKeeps
<1>8. CASE DaemonRestart
  BY <1>8, RestartKeeps
<1>9. CASE UNCHANGED vars
  BY <1>0, <1>9, SameStore, KeepsConn, SameClients DEF vars, SessionInv
<1> QED
  BY <1>1, <1>2, <1>3, <1>4, <1>5, <1>6, <1>7, <1>8, <1>9 DEF Next

\* The inductive invariant: what the rows of the store, the connections and the
\* runners of the clients say of each other.
THEOREM SessionInvariant == Spec => []SessionInv
  BY InitSession, NextSession, PTL DEF Spec

\* A pairing link makes one device at most, whoever presents it and however
\* often, across lost connections and restarts (exchange_pairing).
THEOREM PairingSingleUseCorrect == Spec => []PairingSingleUse
<1>1. SessionInv => PairingSingleUse
  BY DEF SessionInv, StoreInv
<1> QED
  BY <1>1, SessionInvariant, PTL

\* A connection made after a device was revoked is never authenticated as that
\* device (authenticate_device).
THEOREM RevokedStaysOutCorrect == Spec => []RevokedStaysOut
<1>1. SessionInv => RevokedStaysOut
  BY DEF SessionInv, ConnInv, GoodConn, RevokedStaysOut
<1> QED
  BY <1>1, SessionInvariant, PTL

\* No request is executed that needs more than the scopes given to the pairing
\* link of its device (create_pairing, exchange_pairing, authorized).
THEOREM GrantedOnlyCorrect == Spec => []GrantedOnly
<1>1. SessionInv => GrantedOnly
  BY DEF SessionInv, ConnInv, StoreInv, GoodConn, GrantedOnly
<1> QED
  BY <1>1, SessionInvariant, PTL

---------------------------------------------------------------------------
\* Clients and their connections.  This invariant is kept on top of SessionInv.

Elements(q) == {q[i] : i \in 1 .. Len(q)}

\* No device, or one of the table.
Known(d, devs) == d = 0 \/ d \in DOMAIN devs

\* A connection has a device from its acceptance on, its welcome names that
\* device, and its writer runs from the welcome to the end.
Live(r, devs) ==
    /\ r.quiet <= 2 /\ Known(r.device, devs) /\ Known(r.target, devs)
    /\ r.at = "upgraded" => r.device = 0 /\ r.to_client = << >>
    /\ r.at \in {"welcome", "open", "busy"} => r.device # 0
    /\ r.writer => r.at \in {"open", "busy"}
    /\ \A m \in Elements(r.to_client) :
          /\ Known(m.device, devs)
          /\ m.type = "welcome" => m.device = r.device /\ m.device # 0
    /\ \A m \in Elements(r.to_server) : Known(m.device, devs)

\* While the client can be reached, the last interval that is allowed without a
\* message has a ping or its answer under way.
Reached(r) ==
    r.up /\ r.client # {} =>
       /\ r.why # "silence"
       /\ r.writer /\ r.quiet = 2 =>
             \/ \E m \in Elements(r.to_client) : m.type = "ping"
             \/ \E m \in Elements(r.to_server) : m.type = "pong"

\* A runner, with what its keyring has: a credential in use is the stored one.
Keeps(a, st, devs) ==
    /\ (a.slot # {}) <=> (a.at \in {"hello", "connected"})
    /\ a.active # {} => a.active = st
    /\ a.at = "connected" => a.active # {}
    /\ st \subseteq DOMAIN devs /\ \A d, e \in st : d = e

\* A runner and its connection: it asks for, gets and keeps the device whose
\* credential it has.
On(a, r) ==
    /\ a.active # {} /\ r.device # 0 => a.active = {r.device}
    /\ a.at = "connected" => r.device # 0
    /\ a.active # {} /\ r.at = "upgraded" /\ r.to_server # << >> =>
          Head(r.to_server).link = {} /\ a.active = {Head(r.to_server).device}

LinkInv ==
    /\ \A s \in Slot : Live(conn[s], devices) /\ Reached(conn[s])
    /\ \A c \in Client : Keeps(client[c], stored[c], devices)
    /\ \A s \in Slot : conn[s].client = {} \/ \E c \in Client : conn[s].client = {c}
    /\ \A c \in Client, s \in Slot :
          /\ client[c].slot = {s} <=> conn[s].client = {c}
          /\ conn[s].client = {c} => On(client[c], conn[s])
    /\ profile \in [Client -> BOOLEAN] /\ inputs \in 0 .. MaxInputs

---------------------------------------------------------------------------
\* Lemmas about queues and about one connection.

LEMMA ElementsAppend ==
    ASSUME NEW S, NEW q \in Seq(S), NEW m \in S
    PROVE  Append(q, m) \in Seq(S) /\ Elements(Append(q, m)) = Elements(q) \cup {m}
<1> DEFINE t == Append(q, m)
<1>1. /\ t \in Seq(S) /\ Len(t) = Len(q) + 1 /\ Len(q) \in Nat
      /\ (\A i \in 1 .. Len(q) : t[i] = q[i]) /\ t[Len(q) + 1] = m
  OBVIOUS
<1> HIDE DEF t
<1>2. \A i \in 1 .. Len(q) + 1 : i \in 1 .. Len(q) \/ i = Len(q) + 1
  BY <1>1
<1>3. Elements(t) = Elements(q) \cup {m}
  BY <1>1, <1>2 DEF Elements
<1> QED
  BY <1>1, <1>3 DEF t

LEMMA ElementsTail ==
    ASSUME NEW S, NEW q \in Seq(S), q # << >>
    PROVE  /\ Head(q) \in S /\ Tail(q) \in Seq(S)
           /\ Elements(q) = {Head(q)} \cup Elements(Tail(q))
<1> DEFINE t == Tail(q)
<1>1. /\ Head(q) = q[1] /\ q[1] \in S /\ t \in Seq(S) /\ Len(q) \in Nat /\ Len(q) >= 1
      /\ Len(t) = Len(q) - 1 /\ \A i \in 1 .. Len(q) - 1 : t[i] = q[i + 1]
  OBVIOUS
<1> HIDE DEF t
<1>2. ASSUME NEW i \in 1 .. Len(q) PROVE q[i] \in {q[1]} \cup Elements(t)
  <2>1. CASE i = 1
    BY <2>1
  <2>2. CASE i # 1
    <3>1. i - 1 \in 1 .. Len(t) /\ t[i - 1] = q[(i - 1) + 1] /\ (i - 1) + 1 = i
      BY <1>1, <2>2
    <3> QED
      BY <3>1 DEF Elements
  <2> QED
    BY <2>1, <2>2
<1>3. ASSUME NEW i \in 1 .. Len(t) PROVE t[i] \in Elements(q)
  <2>1. t[i] = q[i + 1] /\ i + 1 \in 1 .. Len(q)
    BY <1>1
  <2> QED
    BY <2>1 DEF Elements
<1>4. q[1] \in Elements(q)
  BY <1>1 DEF Elements
<1>5. Elements(q) = {q[1]} \cup Elements(t)
  BY <1>2, <1>3, <1>4 DEF Elements
<1> QED
  BY <1>1, <1>5 DEF t

LEMMA ElementsEmpty == Elements(<< >>) = {}
  BY DEF Elements

LEMMA LiveLater ==
    ASSUME NEW devs, NEW next, Later(devs, next), NEW r, Live(r, devs)
    PROVE  Live(r, next)
  BY DEF Later, Live, Known

LEMMA KeepsLater ==
    ASSUME NEW devs, NEW next, Later(devs, next), NEW a, NEW st, Keeps(a, st, devs)
    PROVE  Keeps(a, st, next)
  BY DEF Later, Keeps

LEMMA NoConnLive ==
    ASSUME NEW devs
    PROVE  Live(NoConn, devs) /\ Reached(NoConn) /\ NoConn.client = {} /\ NoConn.device = 0
  BY ElementsEmpty DEF NoConn, Live, Reached, Known

LEMMA MsgFields ==
    ASSUME NEW type PROVE Msg(type).type = type /\ Msg(type).device = 0 /\ Msg(type).link = {}
  BY DEF Msg

LEMMA ToServerFields ==
    ASSUME NEW r \in Socket, NEW m \in Wire
    PROVE  LET q == ToServer(r, m)
           IN  /\ q \in Socket
               /\ q.at = r.at /\ q.client = r.client /\ q.device = r.device /\ q.target = r.target
               /\ q.quiet = r.quiet /\ q.writer = r.writer /\ q.up = r.up /\ q.why = r.why
               /\ q.to_client = r.to_client
               /\ Elements(r.to_server) \subseteq Elements(q.to_server)
               /\ Elements(q.to_server) \subseteq Elements(r.to_server) \cup {m}
               /\ r.up => m \in Elements(q.to_server)
<1>1. CASE r.up
  <2> DEFINE t == Append(r.to_server, m)
  <2>1. t \in Seq(Wire) /\ Elements(t) = Elements(r.to_server) \cup {m}
    <3>1. r.to_server \in Seq(Wire)
      BY DEF Socket
    <3> QED
      BY <3>1, ElementsAppend
  <2>2. ToServer(r, m) = [r EXCEPT !.to_server = t]
    BY <1>1 DEF ToServer
  <2> HIDE DEF t
  <2> QED
    BY <2>1, <2>2 DEF Socket
<1>2. CASE ~r.up
  BY <1>2 DEF ToServer
<1> QED
  BY <1>1, <1>2

LEMMA ToClientFields ==
    ASSUME NEW r \in Socket, NEW m \in Wire
    PROVE  LET q == ToClient(r, m)
           IN  /\ q \in Socket
               /\ q.at = r.at /\ q.client = r.client /\ q.device = r.device /\ q.target = r.target
               /\ q.quiet = r.quiet /\ q.writer = r.writer /\ q.up = r.up /\ q.why = r.why
               /\ q.to_server = r.to_server
               /\ Elements(r.to_client) \subseteq Elements(q.to_client)
               /\ Elements(q.to_client) \subseteq Elements(r.to_client) \cup {m}
               /\ r.up => m \in Elements(q.to_client)
<1>1. CASE r.up
  <2> DEFINE t == Append(r.to_client, m)
  <2>1. t \in Seq(Wire) /\ Elements(t) = Elements(r.to_client) \cup {m}
    <3>1. r.to_client \in Seq(Wire)
      BY DEF Socket
    <3> QED
      BY <3>1, ElementsAppend
  <2>2. ToClient(r, m) = [r EXCEPT !.to_client = t]
    BY <1>1 DEF ToClient
  <2> HIDE DEF t
  <2> QED
    BY <2>1, <2>2 DEF Socket
<1>2. CASE ~r.up
  BY <1>2 DEF ToClient
<1> QED
  BY <1>1, <1>2

\* The daemon's side is closed.
LEMMA ClosedLive ==
    ASSUME NEW devs, NEW r \in Socket, Live(r, devs)
    PROVE  /\ Closed(r) \in Socket /\ Closed(r).at = "closed" /\ Closed(r).client = r.client
           /\ Closed(r).device = r.device /\ Closed(r).target = r.target
           /\ Live(Closed(r), devs)
           /\ Reached(r) => Reached(Closed(r))
<1> DEFINE m == Msg("close")
           q == ToClient(r, m)
           z == Closed(r)
<1>1. m \in Wire /\ m.type = "close" /\ m.device = 0
  BY MsgWire, MsgFields
<1> HIDE DEF m
<1>2. /\ q \in Socket /\ q.client = r.client /\ q.device = r.device /\ q.target = r.target
      /\ q.quiet = r.quiet /\ q.up = r.up /\ q.why = r.why
      /\ Elements(q.to_client) \subseteq Elements(r.to_client) \cup {m}
  BY <1>1, ToClientFields
<1>3. z = [q EXCEPT !.at = "closed", !.writer = FALSE, !.quiet = 0, !.behind = FALSE,
                      !.to_server = << >>]
  BY DEF Closed, m
<1>4. << >> \in Seq(Wire)
  OBVIOUS
<1> HIDE DEF q, z
<1>5. /\ z \in Socket /\ z.at = "closed" /\ z.client = q.client /\ z.device = q.device
      /\ z.target = q.target /\ z.quiet = 0 /\ z.writer = FALSE /\ z.up = q.up
      /\ z.why = q.why /\ z.to_server = << >> /\ z.to_client = q.to_client
  BY <1>2, <1>3, <1>4 DEF Socket
<1>6. Live(z, devs)
  BY <1>1, <1>2, <1>5, ElementsEmpty DEF Live, Known
<1>7. Reached(r) => Reached(z)
  BY <1>2, <1>5 DEF Reached
<1> QED
  BY <1>2, <1>5, <1>6, <1>7 DEF z

---------------------------------------------------------------------------
\* Steps by what they change.

LEMMA LinkFacts ==
    ASSUME SessionInv, LinkInv
    PROVE  /\ DOMAIN conn = Slot /\ client \in [Client -> Runner]
           /\ \A s \in Slot : /\ conn[s] \in Socket /\ Live(conn[s], devices)
                              /\ Reached(conn[s])
           /\ inputs \in 0 .. MaxInputs /\ profile \in [Client -> BOOLEAN]
  BY DEF SessionInv, LinkInv, ConnInv, GoodConn, ClientInv

LEMMA InputTyped ==
    ASSUME inputs \in 0 .. MaxInputs, Input \/ UNCHANGED inputs
    PROVE  inputs' \in 0 .. MaxInputs
  BY SessionAssumption DEF Input

\* One connection changes, and with it perhaps the runner that is on it.
LEMMA ConnMove ==
    ASSUME SessionInv, LinkInv, Later(devices, devices'), NEW s \in Slot, NEW r, SetConn(s, r),
           Live(r, devices'), Reached(r), r.client = conn[s].client,
           \A c \in Client : /\ client'[c].slot = client[c].slot
                             /\ Keeps(client'[c], stored'[c], devices'),
           \A c \in Client : IF conn[s].client = {c} THEN On(client'[c], r)
                             ELSE client'[c] = client[c],
           profile' \in [Client -> BOOLEAN], inputs' \in 0 .. MaxInputs
    PROVE  LinkInv'
<1>0. DOMAIN conn = Slot /\ conn' = [conn EXCEPT ![s] = Settle(r)]
  BY LinkFacts DEF SetConn
<1>1. \A t \in Slot : t # s => conn'[t] = conn[t]
  BY <1>0
<1>2. conn'[s] = r \/ (conn'[s] = NoConn /\ r.client = {})
  <2>1. conn'[s] = Settle(r)
    BY <1>0
  <2> QED
    BY <2>1 DEF Settle
<1>3. conn'[s].client = conn[s].client
  BY <1>2, NoConnLive
<1>4. \A t \in Slot : conn'[t].client = conn[t].client
  BY <1>1, <1>3
<1>5. ASSUME NEW t \in Slot
      PROVE  Live(conn'[t], devices') /\ Reached(conn'[t])
  <2>1. CASE t = s
    BY <1>2, <2>1, NoConnLive
  <2>2. CASE t # s
    <3>1. conn'[t] = conn[t] /\ Live(conn[t], devices) /\ Reached(conn[t])
      BY <1>1, <2>2, LinkFacts
    <3> QED
      BY <3>1, LiveLater
  <2> QED
    BY <2>1, <2>2
<1>6. \A t \in Slot : conn'[t].client = {} \/ \E c \in Client : conn'[t].client = {c}
  BY <1>4 DEF LinkInv
<1>7. ASSUME NEW c \in Client, NEW t \in Slot
      PROVE  /\ client'[c].slot = {t} <=> conn'[t].client = {c}
             /\ conn'[t].client = {c} => On(client'[c], conn'[t])
  <2>1. client'[c].slot = {t} <=> conn'[t].client = {c}
    BY <1>4 DEF LinkInv
  <2>2. ASSUME conn'[t].client = {c} PROVE On(client'[c], conn'[t])
    <3>1. conn[t].client = {c} /\ On(client[c], conn[t]) /\ client[c].slot = {t}
      BY <1>4, <2>2 DEF LinkInv
    <3>2. CASE t = s
      <4>1. r.client = {c} /\ On(client'[c], r)
        BY <3>1, <3>2
      <4>2. conn'[s] = r
        BY <1>2, <4>1
      <4> QED
        BY <3>2, <4>1, <4>2
    <3>3. CASE t # s
      <4>1. conn[s].client # {c}
        <5>1. client[c].slot # {s}
          BY <3>1, <3>3
        <5> QED
          BY <5>1 DEF LinkInv
      <4> QED
        BY <1>1, <3>1, <3>3, <4>1
    <3> QED
      BY <3>2, <3>3
  <2> QED
    BY <2>1, <2>2
<1> QED
  BY <1>5, <1>6, <1>7 DEF LinkInv

\* One connection changes and no client.
LEMMA ConnOnly ==
    ASSUME SessionInv, LinkInv, Later(devices, devices'), NEW s \in Slot, NEW r, SetConn(s, r),
           Live(r, devices'), Reached(r), r.client = conn[s].client,
           \A c \in Client : conn[s].client = {c} => On(client[c], r),
           UNCHANGED clientVars, Input \/ UNCHANGED inputs
    PROVE  LinkInv'
<1>1. client' = client /\ stored' = stored /\ profile' = profile
  BY DEF clientVars
<1>2. \A c \in Client : Keeps(client'[c], stored'[c], devices')
  BY <1>1, KeepsLater DEF LinkInv
<1>3. inputs' \in 0 .. MaxInputs /\ profile' \in [Client -> BOOLEAN]
  BY <1>1, LinkFacts, InputTyped
<1> QED
  BY <1>1, <1>2, <1>3, ConnMove

\* The same, for a connection that keeps its device and is past the hello, or
\* whose hello is lost.
LEMMA ConnKeeps ==
    ASSUME SessionInv, LinkInv, Later(devices, devices'), NEW s \in Slot, NEW r, SetConn(s, r),
           Live(r, devices'), Reached(r), r.client = conn[s].client,
           r.device = conn[s].device, r.at # "upgraded" \/ r.to_server = << >>,
           UNCHANGED clientVars, Input \/ UNCHANGED inputs
    PROVE  LinkInv'
<1>1. \A c \in Client : conn[s].client = {c} => On(client[c], r)
  BY DEF LinkInv, On
<1> QED
  BY <1>1, ConnOnly

\* A runner without a connection changes.
LEMMA RunnerMove ==
    ASSUME SessionInv, LinkInv, NEW c \in Client, NEW a, client' = [client EXCEPT ![c] = a],
           client[c].slot = {}, a.slot = {}, Keeps(a, stored[c], devices),
           UNCHANGED <<storeVars, conn, stored>>,
           profile' \in [Client -> BOOLEAN], Input \/ UNCHANGED inputs
    PROVE  LinkInv'
<1>1. client'[c] = a /\ \A d \in Client : d # c => client'[d] = client[d]
  BY LinkFacts
<1>2. conn' = conn /\ stored' = stored /\ devices' = devices
  BY DEF storeVars
<1>3. \A s \in Slot : conn[s].client # {c}
  <2>1. \A s \in Slot : client[c].slot # {s}
    OBVIOUS
  <2> QED
    BY <2>1 DEF LinkInv
<1>4. \A d \in Client : Keeps(client'[d], stored'[d], devices')
  BY <1>1, <1>2 DEF LinkInv
<1>5. ASSUME NEW d \in Client, NEW s \in Slot
      PROVE  /\ client'[d].slot = {s} <=> conn'[s].client = {d}
             /\ conn'[s].client = {d} => On(client'[d], conn'[s])
  <2>1. CASE d = c
    BY <1>1, <1>2, <1>3, <2>1
  <2>2. CASE d # c
    BY <1>1, <1>2, <2>2 DEF LinkInv
  <2> QED
    BY <2>1, <2>2
<1>6. inputs' \in 0 .. MaxInputs
  BY LinkFacts, InputTyped
<1> QED
  BY <1>2, <1>4, <1>5, <1>6 DEF LinkInv

\* A client leaves its connection, if it is on one.
LEMMA LeaveMove ==
    ASSUME SessionInv, LinkInv, NEW c \in Client, NEW a, client' = [client EXCEPT ![c] = a],
           a.slot = {}, Keeps(a, stored[c], devices), Leave(c),
           UNCHANGED <<storeVars, stored, profile>>, Input \/ UNCHANGED inputs
    PROVE  LinkInv'
<1>1. client'[c] = a /\ \A d \in Client : d # c => client'[d] = client[d]
  BY LinkFacts
<1>2. stored' = stored /\ devices' = devices /\ profile' = profile
  BY DEF storeVars
<1>3. \A s \in Slot : client[c].slot # {s} => conn'[s] = conn[s]
  BY DEF Leave
<1>4. ASSUME NEW s \in Slot, client[c].slot = {s}
      PROVE  Live(conn'[s], devices) /\ Reached(conn'[s]) /\ conn'[s].client = {}
  <2> DEFINE m == Msg("close")
             q == ToServer(conn[s], m)
             r == [q EXCEPT !.client = {}]
  <2>1. m \in Wire /\ m.device = 0
    BY MsgWire, MsgFields
  <2>2. conn'[s] = Settle(r)
    BY <1>4 DEF Leave
  <2> HIDE DEF m
  <2>3. conn[s] \in Socket /\ Live(conn[s], devices)
    BY LinkFacts
  <2>4. /\ q \in Socket
        /\ q.at = conn[s].at /\ q.device = conn[s].device /\ q.target = conn[s].target
        /\ q.quiet = conn[s].quiet /\ q.writer = conn[s].writer
        /\ q.to_client = conn[s].to_client
        /\ Elements(q.to_server) \subseteq Elements(conn[s].to_server) \cup {m}
    BY <2>1, <2>3, ToServerFields
  <2> HIDE DEF q
  <2>5. /\ r.client = {} /\ r.at = q.at /\ r.device = q.device /\ r.target = q.target
        /\ r.quiet = q.quiet /\ r.writer = q.writer
        /\ r.to_client = q.to_client /\ r.to_server = q.to_server
    BY <2>4 DEF Socket
  <2> HIDE DEF r
  <2>6. Live(r, devices)
    BY <2>1, <2>3, <2>4, <2>5 DEF Live, Known
  <2>7. Reached(r)
    BY <2>5 DEF Reached
  <2> QED
    BY <2>2, <2>5, <2>6, <2>7, NoConnLive DEF Settle
<1>5. \A s \in Slot : Live(conn'[s], devices') /\ Reached(conn'[s])
  BY <1>2, <1>3, <1>4, LinkFacts
<1>6. \A d \in Client : Keeps(client'[d], stored'[d], devices')
  BY <1>1, <1>2 DEF LinkInv
<1>7. \A s \in Slot : conn'[s].client = {} \/ \E d \in Client : conn'[s].client = {d}
  BY <1>3, <1>4 DEF LinkInv
<1>8. ASSUME NEW d \in Client, NEW s \in Slot
      PROVE  /\ client'[d].slot = {s} <=> conn'[s].client = {d}
             /\ conn'[s].client = {d} => On(client'[d], conn'[s])
  <2>1. CASE client[c].slot = {s}
    <3>1. conn[s].client = {c} /\ conn'[s].client = {}
      BY <1>4, <2>1 DEF LinkInv
    <3>2. client'[d].slot # {s}
      <4>1. CASE d = c
        BY <1>1, <4>1
      <4>2. CASE d # c
        <5>1. conn[s].client # {d}
          BY <3>1, <4>2
        <5>2. client[d].slot # {s}
          BY <5>1 DEF LinkInv
        <5> QED
          BY <1>1, <4>2, <5>2
      <4> QED
        BY <4>1, <4>2
    <3> QED
      BY <3>1, <3>2
  <2>2. CASE client[c].slot # {s}
    <3>1. conn'[s] = conn[s] /\ conn[s].client # {c}
      BY <1>3, <2>2 DEF LinkInv
    <3>2. CASE d = c
      BY <1>1, <3>1, <3>2
    <3>3. CASE d # c
      BY <1>1, <3>1, <3>3 DEF LinkInv
    <3> QED
      BY <3>2, <3>3
  <2> QED
    BY <2>1, <2>2
<1>9. inputs' \in 0 .. MaxInputs /\ profile' \in [Client -> BOOLEAN]
  BY <1>2, LinkFacts, InputTyped
<1> QED
  BY <1>5, <1>6, <1>7, <1>8, <1>9 DEF LinkInv

---------------------------------------------------------------------------
\* The steps of a client.

LEMMA AuthenticateKeeps ==
    ASSUME NEW c \in Client, NEW source, NEW active, active = {} \/ active = stored[c],
           Keeps(client[c], stored[c], devices)
    PROVE  /\ Keeps(Authenticate(c, source, active), stored[c], devices)
           /\ Authenticate(c, source, active).slot = {}
<1> DEFINE a == Authenticate(c, source, active)
<1>1. CASE active = {} /\ source = {} /\ stored[c] = {}
  <2>1. a = [at |-> "stopped", source |-> {}, active |-> {}, slot |-> {}]
    BY <1>1 DEF Authenticate, Load, Off
  <2> HIDE DEF a
  <2>2. Keeps(a, stored[c], devices) /\ a.slot = {}
    BY <2>1 DEF Keeps
  <2> QED
    BY <2>2 DEF a
<1>2. CASE active = {} /\ source = {} /\ stored[c] # {}
  <2>1. a = [at |-> "connecting", source |-> {}, active |-> stored[c], slot |-> {}]
    BY <1>2 DEF Authenticate, Load, Off
  <2> HIDE DEF a
  <2>2. Keeps(a, stored[c], devices) /\ a.slot = {}
    BY <2>1 DEF Keeps
  <2> QED
    BY <2>2 DEF a
<1>3. CASE ~(active = {} /\ source = {})
  <2>1. a = [at |-> "connecting", source |-> source, active |-> active, slot |-> {}]
    BY <1>3 DEF Authenticate
  <2> HIDE DEF a
  <2>2. Keeps(a, stored[c], devices) /\ a.slot = {}
    BY <2>1 DEF Keeps
  <2> QED
    BY <2>2 DEF a
<1> QED
  BY <1>1, <1>2, <1>3

LEMMA ButtonsLink ==
    ASSUME SessionInv, LinkInv, NEW c \in Client,
           \/ \E k \in Link : PairAndConnect(c, k)
           \/ ConnectSaved(c) \/ Reconnect(c) \/ ConnectFails(c)
    PROVE  LinkInv'
<1>0. Keeps(client[c], stored[c], devices) /\ client[c] \in Runner
  BY LinkFacts DEF LinkInv
<1>1. profile \in [Client -> BOOLEAN]
  BY LinkFacts
<1>2. ASSUME NEW k \in Link, PairAndConnect(c, k) PROVE LinkInv'
  <2> DEFINE a == Authenticate(c, {k}, {})
  <2>1. Keeps(a, stored[c], devices) /\ a.slot = {}
    BY <1>0, AuthenticateKeeps
  <2>2. client' = [client EXCEPT ![c] = a] /\ client[c].at = "off"
    BY <1>2 DEF PairAndConnect, PairingConfig
  <2> HIDE DEF a
  <2>3. client[c].slot = {}
    BY <1>0, <2>2 DEF Keeps
  <2>4. profile' \in [Client -> BOOLEAN]
    BY <1>1, <1>2 DEF PairAndConnect, SaveProfile
  <2>5. UNCHANGED <<storeVars, conn, stored>> /\ UNCHANGED inputs
    BY <1>2 DEF PairAndConnect
  <2> QED
    BY <2>1, <2>2, <2>3, <2>4, <2>5, RunnerMove
<1>3. CASE ConnectSaved(c)
  <2>1. /\ UNCHANGED <<storeVars, conn, stored>> /\ profile' \in [Client -> BOOLEAN]
        /\ client[c].at = "off" /\ (Input \/ UNCHANGED inputs)
    BY <1>1, <1>3 DEF ConnectSaved
  <2>2. client[c].slot = {}
    BY <1>0, <2>1 DEF Keeps
  <2>3. CASE client' = [client EXCEPT ![c] = StoredConfig(c)]
    <3> DEFINE a == Authenticate(c, {}, {})
    <3>1. Keeps(a, stored[c], devices) /\ a.slot = {}
      BY <1>0, AuthenticateKeeps
    <3>2. client' = [client EXCEPT ![c] = a]
      BY <2>3 DEF StoredConfig
    <3> HIDE DEF a
    <3> QED
      BY <2>1, <2>2, <3>1, <3>2, RunnerMove
  <2>4. CASE client' = [client EXCEPT ![c].at = "stopped"]
    <3> DEFINE a == [client[c] EXCEPT !.at = "stopped"]
    <3>1. a.at = "stopped" /\ a.active = client[c].active /\ a.slot = client[c].slot
      BY <1>0 DEF Runner
    <3>2. client' = [client EXCEPT ![c] = a]
      BY <2>4
    <3> HIDE DEF a
    <3>3. Keeps(a, stored[c], devices)
      BY <1>0, <2>2, <3>1 DEF Keeps
    <3> QED
      BY <2>1, <2>2, <3>1, <3>2, <3>3, RunnerMove
  <2> QED
    BY <1>3, <2>3, <2>4 DEF ConnectSaved
<1>4. CASE Reconnect(c)
  <2> DEFINE a == Authenticate(c, client[c].source, client[c].active)
  <2>1. Keeps(a, stored[c], devices) /\ a.slot = {}
    <3>1. client[c].active = {} \/ client[c].active = stored[c]
      BY <1>0 DEF Keeps
    <3> QED
      BY <1>0, <3>1, AuthenticateKeeps
  <2>2. client' = [client EXCEPT ![c] = a] /\ client[c].at = "waiting"
    BY <1>4 DEF Reconnect
  <2> HIDE DEF a
  <2>3. client[c].slot = {}
    BY <1>0, <2>2 DEF Keeps
  <2>4. UNCHANGED <<storeVars, conn, stored>> /\ UNCHANGED inputs /\ profile' \in [Client -> BOOLEAN]
    BY <1>1, <1>4 DEF Reconnect
  <2> QED
    BY <2>1, <2>2, <2>3, <2>4, RunnerMove
<1>5. CASE ConnectFails(c)
  <2> DEFINE a == Disconnected(c)
  <2>1. a.at = "waiting" /\ a.active = client[c].active /\ a.slot = {}
    BY <1>0 DEF Disconnected, Runner
  <2>2. client' = [client EXCEPT ![c] = a] /\ client[c].at = "connecting"
    BY <1>5 DEF ConnectFails
  <2> HIDE DEF a
  <2>3. client[c].slot = {} /\ Keeps(a, stored[c], devices)
    BY <1>0, <2>1, <2>2 DEF Keeps
  <2>4. UNCHANGED <<storeVars, conn, stored>> /\ Input /\ profile' \in [Client -> BOOLEAN]
    BY <1>1, <1>5 DEF ConnectFails
  <2> QED
    BY <2>1, <2>2, <2>3, <2>4, RunnerMove
<1> QED
  BY <1>2, <1>3, <1>4, <1>5

LEMMA LeavingLink ==
    ASSUME SessionInv, LinkInv, NEW c \in Client, Quit(c) \/ ReadClose(c) \/ LoseConnection(c)
    PROVE  LinkInv'
<1>0. Keeps(client[c], stored[c], devices) /\ client[c] \in Runner
  BY LinkFacts DEF LinkInv
<1>1. Off.slot = {} /\ Keeps(Off, stored[c], devices)
  <2>1. Off.slot = {} /\ Off.at = "off" /\ Off.active = {}
    BY DEF Off
  <2> QED
    BY <1>0, <2>1 DEF Keeps
<1> DEFINE a == Disconnected(c)
<1>2. a.slot = {} /\ Keeps(a, stored[c], devices)
  <2>1. a.at = "waiting" /\ a.active = client[c].active /\ a.slot = {}
    BY <1>0 DEF Disconnected, Runner
  <2> HIDE DEF a
  <2> QED
    BY <1>0, <2>1 DEF Keeps
<1>3. CASE Quit(c)
  BY <1>1, <1>3, LeaveMove DEF Quit
<1>4. CASE ReadClose(c) \/ LoseConnection(c)
  <2>1. /\ client' = [client EXCEPT ![c] = a] /\ Leave(c)
        /\ UNCHANGED <<storeVars, stored, profile>> /\ UNCHANGED inputs
    BY <1>4 DEF ReadClose, LoseConnection
  <2> HIDE DEF a
  <2> QED
    BY <1>2, <2>1, LeaveMove
<1> QED
  BY <1>3, <1>4

\* The connection a client is on.
LEMMA OnSlot ==
    ASSUME SessionInv, LinkInv, NEW c \in Client, client[c].slot # {}
    PROVE  /\ TheSlot(c) \in Slot /\ client[c].slot = {TheSlot(c)}
           /\ conn[TheSlot(c)].client = {c} /\ On(client[c], conn[TheSlot(c)])
<1>1. TheSlot(c) \in client[c].slot
  BY DEF TheSlot
<1>2. client[c].slot \subseteq Slot
  BY LinkFacts DEF Runner
<1>3. client[c].slot = {TheSlot(c)}
  BY <1>1 DEF SessionInv, ClientInv
<1> QED
  BY <1>1, <1>2, <1>3 DEF LinkInv

\* A message that a client takes.
LEMMA PoppedFields ==
    ASSUME SessionInv, LinkInv, NEW c \in Client, NEW type, Waits(c, type),
           NEW s, s = TheSlot(c)
    PROVE  LET p == Popped(c)
               m == Head(conn[s].to_client)
           IN  /\ s \in Slot /\ client[c].slot = {s}
               /\ conn[s].client = {c} /\ On(client[c], conn[s])
               /\ p \in Socket /\ p.client = {c} /\ p.device = conn[s].device
               /\ p.at = conn[s].at /\ p.at # "upgraded" /\ p.to_server = conn[s].to_server
               /\ Live(p, devices)
               /\ m \in Wire /\ m.type = type /\ Known(m.device, devices)
               /\ type = "welcome" => m.device = conn[s].device /\ m.device # 0
               /\ type # "ping" => Reached(p)
               /\ p.up = conn[s].up /\ p.why = conn[s].why
<1>1. client[c].slot # {}
  BY DEF Waits
<1>2. /\ s \in Slot /\ client[c].slot = {s} /\ conn[s].client = {c} /\ On(client[c], conn[s])
  BY <1>1, OnSlot
<1>3. conn[s].to_client # << >> /\ Head(conn[s].to_client).type = type
  BY <1>2 DEF Waits
<1>4. conn[s] \in Socket /\ Live(conn[s], devices) /\ Reached(conn[s])
  BY <1>2, LinkFacts
<1> DEFINE q == conn[s].to_client
           m == Head(q)
           t == Tail(q)
           p == Popped(c)
<1>5. m \in Wire /\ t \in Seq(Wire) /\ Elements(q) = {m} \cup Elements(t)
  <2>1. q \in Seq(Wire) /\ q # << >>
    BY <1>3, <1>4 DEF Socket
  <2> HIDE DEF q
  <2> QED
    BY <2>1, ElementsTail
<1>6. p = [conn[s] EXCEPT !.to_client = t]
  BY DEF Popped
<1>7. m.type = type
  BY <1>3
<1> HIDE DEF p, m, t
<1>8. /\ p \in Socket /\ p.at = conn[s].at /\ p.client = conn[s].client
      /\ p.device = conn[s].device /\ p.target = conn[s].target /\ p.quiet = conn[s].quiet
      /\ p.writer = conn[s].writer /\ p.up = conn[s].up /\ p.why = conn[s].why
      /\ p.to_server = conn[s].to_server /\ p.to_client = t
  BY <1>4, <1>5, <1>6 DEF Socket
<1>9. p.at # "upgraded"
  BY <1>3, <1>4, <1>8 DEF Live
<1>10. Live(p, devices)
  BY <1>4, <1>5, <1>8, <1>9 DEF Live
<1>11. Known(m.device, devices) /\ (type = "welcome" => m.device = conn[s].device /\ m.device # 0)
  BY <1>4, <1>5, <1>7 DEF Live
<1>12. type # "ping" => Reached(p)
  BY <1>4, <1>5, <1>7, <1>8 DEF Reached
<1> QED
  BY <1>2, <1>5, <1>7, <1>8, <1>9, <1>10, <1>11, <1>12 DEF p, m

\* The welcome is for the device whose credential the client has, or the
\* credential is new and stored now.
LEMMA ReadWelcomeLink ==
    ASSUME SessionInv, LinkInv, NEW c \in Client, ReadWelcome(c)
    PROVE  LinkInv'
<1>1. PICK s : s = TheSlot(c)
  OBVIOUS
<1> DEFINE d == Head(conn[s].to_client).device
           p == Popped(c)
<1>2. /\ s \in Slot /\ client[c].slot = {s} /\ conn[s].client = {c} /\ On(client[c], conn[s])
      /\ p \in Socket /\ p.client = {c} /\ p.device = conn[s].device
      /\ p.at # "upgraded" /\ Live(p, devices)
      /\ d \in Nat /\ Known(d, devices) /\ d = conn[s].device /\ d # 0
      /\ Reached(p)
  <2>1. Waits(c, "welcome")
    BY DEF ReadWelcome
  <2>2. Head(conn[s].to_client) \in Wire
    BY <1>1, <2>1, PoppedFields
  <2>3. d \in Nat
    BY <2>2 DEF Wire
  <2> QED
    BY <1>1, <2>1, <2>3, PoppedFields
<1>3. Keeps(client[c], stored[c], devices) /\ client[c] \in Runner /\ client \in [Client -> Runner]
      /\ stored \in [Client -> SUBSET Nat]
  BY LinkFacts DEF LinkInv, SessionInv, ClientInv
<1>4. /\ UNCHANGED storeVars /\ UNCHANGED profile /\ (Input \/ UNCHANGED inputs)
      /\ (AcceptCredential(c, d, TRUE) \/ AcceptCredential(c, d, FALSE))
  BY <1>1 DEF ReadWelcome
<1>5. devices' = devices /\ profile' \in [Client -> BOOLEAN] /\ inputs' \in 0 .. MaxInputs
      /\ Later(devices, devices')
  BY <1>4, LinkFacts, InputTyped, SameStore DEF storeVars, SessionInv
<1> HIDE DEF d, p
<1>6. CASE client' = [client EXCEPT ![c] = [Off EXCEPT !.at = "stopped"]] /\ Leave(c) /\ UNCHANGED stored
  <2> DEFINE a == [Off EXCEPT !.at = "stopped"]
  <2>1. a.slot = {} /\ a.at = "stopped" /\ a.active = {}
    BY DEF Off
  <2>2. client' = [client EXCEPT ![c] = a]
    BY <1>6
  <2> HIDE DEF a
  <2>3. Keeps(a, stored[c], devices)
    BY <1>3, <2>1 DEF Keeps
  <2> QED
    BY <1>4, <1>6, <2>1, <2>2, <2>3, LeaveMove
<1>7. CASE /\ IF client[c].active = {} THEN Save(c, d) ELSE UNCHANGED stored
           /\ client' = [client EXCEPT ![c].at = "connected", ![c].active = {d}]
           /\ SetConn(s, p)
  <2> DEFINE a == [client[c] EXCEPT !.at = "connected", !.active = {d}]
  <2>1. client' = [client EXCEPT ![c] = a]
    BY <1>3, <1>7
  <2>2. a.at = "connected" /\ a.active = {d} /\ a.slot = {s}
    BY <1>2, <1>3 DEF Runner
  <2> HIDE DEF a
  <2>3. client'[c] = a /\ \A e \in Client : e # c => client'[e] = client[e]
    BY <1>3, <2>1
  <2>4. stored'[c] = {d} /\ \A e \in Client : e # c => stored'[e] = stored[e]
    <3>1. CASE client[c].active = {}
      BY <1>3, <1>7, <3>1 DEF Save
    <3>2. CASE client[c].active # {}
      <4>1. client[c].active = {d}
        BY <1>2, <3>2 DEF On
      <4>2. stored[c] = {d}
        BY <1>3, <3>2, <4>1 DEF Keeps
      <4> QED
        BY <1>7, <3>2, <4>2
    <3> QED
      BY <3>1, <3>2
  <2>5. Keeps(a, {d}, devices)
    BY <1>2, <2>2 DEF Keeps, Known
  <2>6. \A e \in Client : client'[e].slot = client[e].slot /\ Keeps(client'[e], stored'[e], devices')
    BY <1>2, <1>5, <2>2, <2>3, <2>4, <2>5 DEF LinkInv
  <2>7. On(a, p)
    BY <1>2, <2>2 DEF On
  <2>8. \A e \in Client : IF conn[s].client = {e} THEN On(client'[e], p) ELSE client'[e] = client[e]
    <3>1. \A e \in Client : conn[s].client = {e} => e = c
      BY <1>2
    <3> QED
      BY <1>2, <2>3, <2>7, <3>1
  <2> QED
    BY <1>2, <1>5, <1>7, <2>6, <2>8, ConnMove
<1> QED
  BY <1>1, <1>4, <1>6, <1>7 DEF AcceptCredential, p

LEMMA ClientMessagesLink ==
    ASSUME SessionInv, LinkInv, NEW c \in Client,
           \/ ReadPing(c)
           \/ \E op \in Requests, d \in Device \cup {0} : SendRequest(c, op, d)
    PROVE  LinkInv'
<1>0. PICK s : s = TheSlot(c)
  OBVIOUS
<1>1. CASE ReadPing(c)
  <2> DEFINE p == Popped(c)
             m == Msg("pong")
             r == ToServer(p, m)
  <2>1. /\ s \in Slot /\ conn[s].client = {c} /\ On(client[c], conn[s])
        /\ p \in Socket /\ p.client = {c} /\ p.device = conn[s].device
        /\ p.at # "upgraded" /\ Live(p, devices) /\ p.up = conn[s].up /\ p.why = conn[s].why
    BY <1>0, <1>1, PoppedFields DEF ReadPing
  <2>2. m \in Wire /\ m.device = 0 /\ m.type = "pong"
    BY MsgWire, MsgFields
  <2>3. SetConn(s, r) /\ UNCHANGED <<storeVars, clientVars, inputs>>
    BY <1>0, <1>1 DEF ReadPing
  <2> HIDE DEF p, m
  <2>4. /\ r.at = p.at /\ r.client = p.client /\ r.device = p.device /\ r.target = p.target
        /\ r.quiet = p.quiet /\ r.writer = p.writer /\ r.up = p.up /\ r.why = p.why
        /\ r.to_client = p.to_client
        /\ Elements(r.to_server) \subseteq Elements(p.to_server) \cup {m}
        /\ p.up => m \in Elements(r.to_server)
    BY <2>1, <2>2, ToServerFields
  <2> HIDE DEF r
  <2>5. Live(r, devices)
    BY <2>1, <2>2, <2>4 DEF Live, Known
  <2>6. Reached(r)
    <3>1. Reached(conn[s])
      BY <2>1, LinkFacts
    <3> QED
      BY <2>1, <2>2, <2>4, <3>1 DEF Reached
  <2>7. devices' = devices /\ Later(devices, devices')
    BY <2>3, SameStore DEF storeVars, SessionInv
  <2> QED
    BY <2>1, <2>3, <2>4, <2>5, <2>6, <2>7, ConnKeeps
<1>2. ASSUME NEW op \in Requests, NEW d \in Device \cup {0}, SendRequest(c, op, d)
      PROVE  LinkInv'
  <2> DEFINE m == RequestFor(op, d)
             r == ToServer(conn[s], m)
  <2>1. client[c].at = "connected" /\ Keeps(client[c], stored[c], devices)
    BY <1>2 DEF SendRequest, LinkInv
  <2>2. client[c].slot # {}
    BY <2>1 DEF Keeps
  <2>3. s \in Slot /\ conn[s].client = {c} /\ On(client[c], conn[s])
    BY <1>0, <2>2, OnSlot
  <2>4. m \in Wire /\ m.device = d /\ m.type = "request"
    <3>1. op \in Request /\ d \in Nat
      BY SessionAssumption, DevicesAssumption, FS_CardinalityType DEF Device
    <3> QED
      BY <3>1 DEF RequestFor, Msg, Wire
  <2>5. Known(d, devices)
    BY <1>2 DEF SendRequest, Revocable, Known
  <2>6. /\ conn[s] \in Socket /\ Live(conn[s], devices) /\ conn[s].at # "upgraded"
        /\ Reached(conn[s])
    <3>1. conn[s].device # 0
      BY <2>1, <2>3 DEF On
    <3> QED
      BY <2>3, <3>1, LinkFacts DEF Live
  <2>7. SetConn(s, r) /\ UNCHANGED <<storeVars, clientVars>> /\ Input
    BY <1>0, <1>2 DEF SendRequest
  <2> HIDE DEF m
  <2>8. /\ r.at = conn[s].at /\ r.client = conn[s].client /\ r.device = conn[s].device
        /\ r.target = conn[s].target /\ r.quiet = conn[s].quiet /\ r.writer = conn[s].writer
        /\ r.up = conn[s].up /\ r.why = conn[s].why /\ r.to_client = conn[s].to_client
        /\ Elements(conn[s].to_server) \subseteq Elements(r.to_server)
        /\ Elements(r.to_server) \subseteq Elements(conn[s].to_server) \cup {m}
    BY <2>4, <2>6, ToServerFields
  <2> HIDE DEF r
  <2>9. Live(r, devices)
    BY <2>4, <2>5, <2>6, <2>8 DEF Live
  <2>10. Reached(r)
    BY <2>6, <2>8 DEF Reached
  <2>11. devices' = devices /\ Later(devices, devices')
    BY <2>7, SameStore DEF storeVars, SessionInv
  <2> QED
    BY <2>3, <2>6, <2>7, <2>8, <2>9, <2>10, <2>11, ConnKeeps
<1> QED
  BY <1>1, <1>2

\* The hello names the credential the client has.
LEMMA ConnectLink ==
    ASSUME SessionInv, LinkInv, NEW c \in Client, NEW s \in Slot, Connect(c, s)
    PROVE  LinkInv'
<1>0. /\ client[c] \in Runner /\ client \in [Client -> Runner] /\ DOMAIN conn = Slot
      /\ Keeps(client[c], stored[c], devices) /\ client[c].at = "connecting"
  BY LinkFacts DEF LinkInv, Connect
<1>1. client[c].slot = {} /\ conn[s] = NoConn
  BY <1>0 DEF Keeps, Connect
<1> DEFINE active == client[c].active
           hello == [Msg("hello") EXCEPT
                        !.link = IF active = {} THEN client[c].source ELSE {},
                        !.device = IF active = {} THEN 0 ELSE CHOOSE d \in active : TRUE]
           gone == {d \in DOMAIN devices : devices[d].revoked}
           new == [NoConn EXCEPT !.at = "upgraded", !.client = {c}, !.up = TRUE,
                                 !.to_server = <<hello>>, !.revoked = gone]
           a == [client[c] EXCEPT !.at = "hello", !.slot = {s}]
<1>2. /\ conn' = [conn EXCEPT ![s] = new] /\ client' = [client EXCEPT ![c] = a]
      /\ UNCHANGED <<storeVars, stored, profile, inputs>>
  BY <1>0 DEF Connect
<1>3. active # {} => active = {CHOOSE d \in active : TRUE} /\ active \subseteq DOMAIN devices
  BY <1>0 DEF Keeps
<1>4. Known(hello.device, devices)
  BY <1>3 DEF Msg, Known
<1>5. active # {} => hello.link = {} /\ active = {hello.device}
  BY <1>3 DEF Msg
<1> HIDE DEF hello, gone
<1>6. /\ new.at = "upgraded" /\ new.client = {c} /\ new.device = 0 /\ new.target = 0
      /\ new.quiet = 0 /\ new.writer = FALSE /\ new.to_server = <<hello>>
      /\ new.to_client = << >> /\ new.why = "none"
  BY DEF NoConn
<1>7. a.at = "hello" /\ a.slot = {s} /\ a.active = active
  BY <1>0 DEF Runner
<1> HIDE DEF new, a
<1>8. <<hello>> # << >> /\ Head(<<hello>>) = hello /\ Elements(<<hello>>) = {hello}
  BY DEF Elements
<1>9. Live(new, devices) /\ Reached(new)
  BY <1>4, <1>6, <1>8, ElementsEmpty DEF Live, Reached, Known
<1>10. On(a, new)
  BY <1>5, <1>6, <1>7, <1>8 DEF On
<1>11. Keeps(a, stored[c], devices)
  BY <1>0, <1>7 DEF Keeps
<1>12. /\ conn'[s] = new /\ \A t \in Slot : t # s => conn'[t] = conn[t]
       /\ client'[c] = a /\ \A d \in Client : d # c => client'[d] = client[d]
       /\ devices' = devices /\ stored' = stored
  BY <1>0, <1>2 DEF storeVars
<1>13. \A t \in Slot : Live(conn'[t], devices') /\ Reached(conn'[t])
  BY <1>9, <1>12, LinkFacts
<1>14. \A d \in Client : Keeps(client'[d], stored'[d], devices')
  BY <1>11, <1>12 DEF LinkInv
<1>15. \A t \in Slot : conn'[t].client = {} \/ \E d \in Client : conn'[t].client = {d}
  BY <1>6, <1>12 DEF LinkInv
<1>16. ASSUME NEW d \in Client, NEW t \in Slot
       PROVE  /\ client'[d].slot = {t} <=> conn'[t].client = {d}
              /\ conn'[t].client = {d} => On(client'[d], conn'[t])
  <2>1. \A u \in Slot : conn[u].client # {c}
    <3>1. \A u \in Slot : client[c].slot # {u}
      BY <1>1
    <3> QED
      BY <3>1 DEF LinkInv
  <2>2. \A e \in Client : client[e].slot # {s}
    <3>1. \A e \in Client : conn[s].client # {e}
      BY <1>1, NoConnLive
    <3> QED
      BY <3>1 DEF LinkInv
  <2>3. CASE d = c /\ t = s
    BY <1>6, <1>7, <1>10, <1>12, <2>3
  <2>4. CASE d = c /\ t # s
    <3>1. client'[d].slot # {t} /\ conn'[t].client # {d}
      BY <1>7, <1>12, <2>1, <2>4
    <3> QED
      BY <3>1
  <2>5. CASE d # c /\ t = s
    <3>1. client'[d].slot # {t} /\ conn'[t].client # {d}
      BY <1>6, <1>12, <2>2, <2>5
    <3> QED
      BY <3>1
  <2>6. CASE d # c /\ t # s
    BY <1>12, <2>6 DEF LinkInv
  <2> QED
    BY <2>3, <2>4, <2>5, <2>6
<1>17. inputs' \in 0 .. MaxInputs /\ profile' \in [Client -> BOOLEAN]
  BY <1>2, LinkFacts
<1> QED
  BY <1>13, <1>14, <1>15, <1>16, <1>17 DEF LinkInv

---------------------------------------------------------------------------
\* The steps of the daemon and of the network.

LEMMA ClosingLink ==
    ASSUME SessionInv, LinkInv, NEW s \in Slot, SetConn(s, Closed(conn[s])),
           UNCHANGED <<storeVars, clientVars>>, Input \/ UNCHANGED inputs
    PROVE  LinkInv'
<1> DEFINE r == Closed(conn[s])
<1>1. conn[s] \in Socket /\ Live(conn[s], devices) /\ Reached(conn[s])
  BY LinkFacts
<1>2. /\ r.at = "closed" /\ r.client = conn[s].client /\ r.device = conn[s].device
      /\ Live(r, devices) /\ Reached(r)
  BY <1>1, ClosedLive
<1>3. devices' = devices /\ Later(devices, devices') /\ SetConn(s, r)
  BY SameStore DEF storeVars, SessionInv
<1> HIDE DEF r
<1> QED
  BY <1>2, <1>3, ConnKeeps

\* A message that the daemon takes.
LEMMA ReadFields ==
    ASSUME SessionInv, LinkInv, NEW s \in Slot, conn[s].to_server # << >>
    PROVE  LET r == Read(s)
               m == Head(conn[s].to_server)
           IN  /\ r \in Socket /\ r.at = conn[s].at /\ r.client = conn[s].client
               /\ r.device = conn[s].device /\ r.target = conn[s].target
               /\ r.writer = conn[s].writer /\ r.up = conn[s].up /\ r.why = conn[s].why
               /\ r.quiet = 0 /\ r.to_client = conn[s].to_client
               /\ Elements(r.to_server) \subseteq Elements(conn[s].to_server)
               /\ Live(r, devices) /\ Reached(r)
               /\ m \in Wire /\ Known(m.device, devices)
<1>1. conn[s] \in Socket /\ Live(conn[s], devices) /\ Reached(conn[s])
  BY LinkFacts
<1> DEFINE q == conn[s].to_server
           t == Tail(q)
           m == Head(q)
           r == Read(s)
<1>2. m \in Wire /\ t \in Seq(Wire) /\ Elements(q) = {m} \cup Elements(t)
  <2>1. q \in Seq(Wire) /\ q # << >>
    BY <1>1 DEF Socket
  <2> HIDE DEF q
  <2> QED
    BY <2>1, ElementsTail
<1>3. r = [conn[s] EXCEPT !.to_server = t, !.quiet = 0, !.behind = FALSE]
  BY DEF Read
<1> HIDE DEF m, t, r
<1>4. /\ r \in Socket /\ r.at = conn[s].at /\ r.client = conn[s].client
      /\ r.device = conn[s].device /\ r.target = conn[s].target
      /\ r.writer = conn[s].writer /\ r.up = conn[s].up /\ r.why = conn[s].why
      /\ r.quiet = 0 /\ r.to_client = conn[s].to_client /\ r.to_server = t
  BY <1>1, <1>2, <1>3 DEF Socket
<1>5. Live(r, devices) /\ Known(m.device, devices)
  BY <1>1, <1>2, <1>4 DEF Live
<1>6. Reached(r)
  BY <1>1, <1>4 DEF Reached
<1> QED
  BY <1>2, <1>4, <1>5, <1>6 DEF r, m

\* A hello with a credential is accepted as the device of that credential.
LEMMA ReadHelloLink ==
    ASSUME SessionInv, LinkInv, NEW s \in Slot, ReadHello(s)
    PROVE  LinkInv'
<1> DEFINE hello == Head(conn[s].to_server)
           accepted(d) == [Read(s) EXCEPT !.at = "welcome", !.device = d]
<1>1. /\ conn[s].to_server # << >> /\ conn[s].at = "upgraded"
      /\ UNCHANGED clientVars /\ UNCHANGED inputs
  BY DEF ReadHello
<1>2. conn[s] \in Socket /\ Live(conn[s], devices) /\ Reached(conn[s])
  BY LinkFacts
<1>3. /\ Read(s) \in Socket /\ Read(s).client = conn[s].client /\ Live(Read(s), devices)
      /\ Read(s).to_client = conn[s].to_client /\ Read(s).writer = conn[s].writer
      /\ Reached(Read(s))
      /\ hello \in Wire /\ Known(hello.device, devices)
  BY <1>1, ReadFields
<1>4. conn[s].to_client = << >> /\ conn[s].writer = FALSE
  <2>1. conn[s].writer \in BOOLEAN
    BY <1>2 DEF Socket
  <2> QED
    BY <1>1, <1>2, <2>1 DEF Live
<1>5. ASSUME NEW d \in Nat, Later(devices, devices'), d \in DOMAIN devices', d # 0,
             SetConn(s, accepted(d)),
             \A c \in Client : conn[s].client = {c} /\ client[c].active # {} =>
                                  client[c].active = {d}
      PROVE  LinkInv'
  <2> DEFINE q == Read(s)
             r == accepted(d)
  <2>1. r = [q EXCEPT !.at = "welcome", !.device = d] /\ q \in Socket
    BY <1>3
  <2>2. /\ q.client = conn[s].client /\ Live(q, devices') /\ q.to_client = << >>
        /\ q.writer = FALSE /\ Reached(q)
    BY <1>3, <1>4, <1>5, LiveLater
  <2>3. SetConn(s, r)
    BY <1>5
  <2> HIDE DEF q, r, accepted
  <2>4. /\ r.at = "welcome" /\ r.device = d /\ r.client = q.client /\ r.target = q.target
        /\ r.quiet = q.quiet /\ r.writer = q.writer /\ r.up = q.up /\ r.why = q.why
        /\ r.to_server = q.to_server /\ r.to_client = q.to_client
    BY <2>1 DEF Socket
  <2>5. Live(r, devices')
    BY <1>5, <2>2, <2>4, ElementsEmpty DEF Live, Known
  <2>6. Reached(r)
    BY <2>2, <2>4 DEF Reached
  <2>7. \A c \in Client : conn[s].client = {c} => On(client[c], r)
    BY <1>5, <2>4 DEF On
  <2> QED
    BY <1>1, <1>5, <2>2, <2>3, <2>4, <2>5, <2>6, <2>7, ConnOnly
<1>6. \A c \in Client : conn[s].client = {c} /\ client[c].active # {} =>
                           hello.link = {} /\ client[c].active = {hello.device}
  BY <1>1 DEF LinkInv, On
<1>7. ASSUME hello.link # {}, exchange_pairing(CHOOSE k \in hello.link : TRUE),
             SetConn(s, accepted(Len(devices) + 1))
      PROVE  LinkInv'
  <2>1. (CHOOSE k \in hello.link : TRUE) \in Link
    BY <1>3, <1>7 DEF Wire
  <2>2. /\ Later(devices, devices')
        /\ Len(devices) + 1 \in (DOMAIN devices') \ DOMAIN devices
    BY <1>7, <2>1, ExchangeKeepsStore DEF SessionInv
  <2>3. Len(devices) + 1 \in Nat /\ Len(devices) + 1 # 0
    <3>1. devices \in Seq(DeviceRecord)
      BY DEF SessionInv, StoreInv
    <3>2. Len(devices) \in Nat
      BY <3>1
    <3> QED
      BY <3>2
  <2>4. \A c \in Client : ~(conn[s].client = {c} /\ client[c].active # {})
    BY <1>6, <1>7
  <2> QED
    BY <1>5, <1>7, <2>2, <2>3, <2>4
<1>8. ASSUME authenticate_device(hello.device), SetConn(s, accepted(hello.device)),
             UNCHANGED storeVars
      PROVE  LinkInv'
  <2>1. Later(devices, devices') /\ devices' = devices
    BY <1>8, SameStore DEF SessionInv, storeVars
  <2>2. hello.device \in Nat /\ hello.device \in DOMAIN devices' /\ hello.device # 0
    <3>1. hello.device \in Nat /\ hello.device \in DOMAIN devices
      BY <1>3, <1>8 DEF authenticate_device, Wire
    <3>2. devices \in Seq(DeviceRecord)
      BY DEF SessionInv, StoreInv
    <3>3. DOMAIN devices = 1 .. Len(devices)
      BY <3>2
    <3> QED
      BY <2>1, <3>1, <3>3
  <2> QED
    BY <1>5, <1>6, <1>8, <2>1, <2>2
<1>9. ASSUME SetConn(s, Closed(conn[s])), UNCHANGED storeVars
      PROVE  LinkInv'
  BY <1>1, <1>9, ClosingLink
<1> HIDE DEF hello, accepted
<1> QED
  BY <1>7, <1>8, <1>9 DEF ReadHello, hello, accepted

LEMMA SendWelcomeLink ==
    ASSUME SessionInv, LinkInv, NEW s \in Slot, SendWelcome(s)
    PROVE  LinkInv'
<1>1. conn[s] \in Socket /\ Live(conn[s], devices) /\ Reached(conn[s])
  BY LinkFacts
<1> DEFINE m == [Msg("welcome") EXCEPT !.device = conn[s].device]
           q == ToClient(conn[s], m)
           r == [q EXCEPT !.at = "open", !.writer = TRUE, !.quiet = 1]
<1>2. m \in Wire /\ m.device = conn[s].device
  BY <1>1 DEF Msg, Wire, Socket
<1>3. conn[s].at = "welcome" /\ SetConn(s, r) /\ UNCHANGED <<storeVars, clientVars, inputs>>
  BY DEF SendWelcome
<1>4. conn[s].device # 0
  BY <1>1, <1>3 DEF Live
<1> HIDE DEF m
<1>5. /\ q \in Socket /\ q.client = conn[s].client /\ q.device = conn[s].device
      /\ q.target = conn[s].target /\ q.up = conn[s].up /\ q.why = conn[s].why
      /\ q.to_server = conn[s].to_server
      /\ Elements(q.to_client) \subseteq Elements(conn[s].to_client) \cup {m}
  BY <1>1, <1>2, ToClientFields
<1> HIDE DEF q
<1>6. /\ r.at = "open" /\ r.writer = TRUE /\ r.quiet = 1 /\ r.client = q.client
      /\ r.device = q.device /\ r.target = q.target /\ r.up = q.up /\ r.why = q.why
      /\ r.to_server = q.to_server /\ r.to_client = q.to_client
  BY <1>5 DEF Socket
<1> HIDE DEF r
<1>7. Live(r, devices)
  BY <1>1, <1>2, <1>4, <1>5, <1>6 DEF Live
<1>8. Reached(r)
  BY <1>1, <1>5, <1>6 DEF Reached
<1>9. devices' = devices /\ Later(devices, devices')
  BY <1>3, SameStore DEF storeVars, SessionInv
<1> QED
  BY <1>3, <1>5, <1>6, <1>7, <1>8, <1>9, ConnKeeps

LEMMA ReadingLink ==
    ASSUME SessionInv, LinkInv, NEW s \in Slot, ReadRequest(s) \/ ReadPong(s)
    PROVE  LinkInv'
<1> DEFINE m == Head(conn[s].to_server)
           q == Read(s)
           r == [q EXCEPT !.at = "busy", !.op = m.op, !.target = m.device]
<1>1. /\ conn[s].to_server # << >> /\ conn[s].at = "open"
      /\ UNCHANGED <<storeVars, clientVars, inputs>>
      /\ SetConn(s, q) \/ SetConn(s, r)
  BY DEF ReadRequest, ReadPong, Unread
<1>2. /\ q \in Socket /\ q.at = "open" /\ q.client = conn[s].client
      /\ q.device = conn[s].device /\ Live(q, devices) /\ Reached(q)
      /\ m \in Wire /\ Known(m.device, devices)
  BY <1>1, ReadFields
<1>3. devices' = devices /\ Later(devices, devices')
  BY <1>1, SameStore DEF storeVars, SessionInv
<1> HIDE DEF q, m
<1>4. CASE SetConn(s, q)
  BY <1>1, <1>2, <1>3, <1>4, ConnKeeps
<1>5. CASE SetConn(s, r)
  <2>1. /\ r.at = "busy" /\ r.target = m.device /\ r.client = q.client /\ r.device = q.device
        /\ r.quiet = q.quiet /\ r.writer = q.writer /\ r.up = q.up /\ r.why = q.why
        /\ r.to_server = q.to_server /\ r.to_client = q.to_client
    BY <1>2 DEF Socket
  <2> HIDE DEF r
  <2>2. Live(r, devices)
    BY <1>2, <2>1 DEF Live
  <2>3. Reached(r)
    BY <1>2, <2>1 DEF Reached
  <2> QED
    BY <1>1, <1>2, <1>3, <1>5, <2>1, <2>2, <2>3, ConnKeeps
<1> QED
  BY <1>1, <1>4, <1>5

LEMMA FinishRequestLink ==
    ASSUME SessionInv, LinkInv, NEW s \in Slot, FinishRequest(s)
    PROVE  LinkInv'
<1>1. conn[s] \in Socket /\ Live(conn[s], devices) /\ Reached(conn[s])
  BY LinkFacts
<1>2. Later(devices, devices')
  BY SameStore, RevokeKeepsStore DEF FinishRequest, SessionInv
<1> DEFINE later == conn[s].to_server # << >>
           idle == [conn[s] EXCEPT !.op = "none", !.target = 0, !.at = "open",
                                   !.behind = later]
           done == [idle EXCEPT !.at = "closed", !.to_server = << >>]
<1>3. /\ conn[s].at = "busy" /\ UNCHANGED clientVars /\ UNCHANGED inputs
      /\ SetConn(s, idle) \/ (~conn[s].writer /\ SetConn(s, done))
  BY DEF FinishRequest
<1>b. later \in BOOLEAN
  OBVIOUS
<1> HIDE DEF later
<1>4. /\ idle \in Socket /\ idle.at = "open" /\ idle.target = 0 /\ idle.device = conn[s].device
      /\ idle.client = conn[s].client /\ idle.quiet = conn[s].quiet
      /\ idle.writer = conn[s].writer /\ idle.up = conn[s].up /\ idle.why = conn[s].why
      /\ idle.to_server = conn[s].to_server /\ idle.to_client = conn[s].to_client
  BY <1>1, <1>b DEF Socket
<1> HIDE DEF idle
<1>5. /\ done.at = "closed" /\ done.target = 0 /\ done.device = conn[s].device
      /\ done.client = conn[s].client /\ done.quiet = conn[s].quiet
      /\ done.writer = conn[s].writer /\ done.up = conn[s].up /\ done.why = conn[s].why
      /\ done.to_server = << >> /\ done.to_client = conn[s].to_client
  BY <1>4 DEF Socket
<1> HIDE DEF done
<1>6. Live(conn[s], devices')
  BY <1>1, <1>2, LiveLater
<1>7. CASE SetConn(s, idle)
  <2>1. Live(idle, devices')
    BY <1>3, <1>4, <1>6 DEF Live, Known
  <2>2. Reached(idle)
    BY <1>1, <1>4 DEF Reached
  <2> QED
    BY <1>2, <1>3, <1>4, <1>7, <2>1, <2>2, ConnKeeps
<1>8. CASE ~conn[s].writer /\ SetConn(s, done)
  <2>1. Live(done, devices')
    BY <1>5, <1>6, <1>8, ElementsEmpty DEF Live, Known
  <2>2. Reached(done)
    BY <1>1, <1>5, <1>8 DEF Reached
  <2> QED
    BY <1>2, <1>3, <1>5, <1>8, <2>1, <2>2, ConnKeeps
<1> QED
  BY <1>3, <1>7, <1>8

\* The heartbeat gives up only on a connection without an answer to its ping,
\* which by then a client that can be reached has sent.
LEMMA HeartbeatLink ==
    ASSUME SessionInv, LinkInv, NEW s \in Slot, Heartbeat(s)
    PROVE  LinkInv'
<1>1. conn[s] \in Socket /\ Live(conn[s], devices) /\ Reached(conn[s])
  BY LinkFacts
<1> DEFINE quiet == conn[s].quiet + 1
           mp == Msg("ping")
           mc == Msg("close")
           k == [conn[s] EXCEPT !.behind = FALSE]
           p == ToClient(k, mp)
           ping == [p EXCEPT !.quiet = quiet]
           q == ToClient(k, mc)
           w == IF Working(s) THEN "request" ELSE "silence"
           silent == [q EXCEPT !.writer = FALSE, !.why = w]
           ended == [silent EXCEPT !.at = "closed", !.to_server = << >>]
<1>2. /\ UNCHANGED <<storeVars, clientVars>> /\ UNCHANGED inputs
      /\ conn[s].writer /\ Prompt(s)
  BY DEF Heartbeat
<1>3. \/ quiet <= 2 /\ SetConn(s, ping)
      \/ ~(quiet <= 2) /\ (SetConn(s, silent) \/ SetConn(s, ended))
  BY DEF Heartbeat
<1>4. mp \in Wire /\ mc \in Wire /\ mp.type = "ping" /\ mc.type = "close" /\ mp.device = 0 /\ mc.device = 0
  BY MsgWire, MsgFields
<1>5. /\ quiet \in Nat /\ conn[s].quiet \in Nat /\ quiet = conn[s].quiet + 1
      /\ conn[s].quiet <= 2 /\ conn[s].at \in {"open", "busy"}
  BY <1>1, <1>2 DEF Socket, Live
<1>0. /\ k \in Socket /\ k.at = conn[s].at /\ k.client = conn[s].client
      /\ k.device = conn[s].device /\ k.target = conn[s].target /\ k.quiet = conn[s].quiet
      /\ k.writer = conn[s].writer /\ k.up = conn[s].up /\ k.why = conn[s].why
      /\ k.to_server = conn[s].to_server /\ k.to_client = conn[s].to_client
  BY <1>1 DEF Socket
<1>11. w \in {"request", "silence"} /\ (Working(s) => w = "request")
  OBVIOUS
<1> HIDE DEF mp, mc, quiet, k, w
<1>6. /\ p \in Socket /\ p.at = conn[s].at /\ p.client = conn[s].client
      /\ p.device = conn[s].device /\ p.target = conn[s].target
      /\ p.writer = conn[s].writer /\ p.up = conn[s].up /\ p.why = conn[s].why
      /\ p.to_server = conn[s].to_server
      /\ Elements(p.to_client) \subseteq Elements(conn[s].to_client) \cup {mp}
      /\ conn[s].up => mp \in Elements(p.to_client)
  BY <1>0, <1>4, ToClientFields
<1>7. /\ q \in Socket /\ q.at = conn[s].at /\ q.client = conn[s].client
      /\ q.device = conn[s].device /\ q.target = conn[s].target
      /\ q.quiet = conn[s].quiet /\ q.up = conn[s].up
      /\ q.to_server = conn[s].to_server
      /\ Elements(q.to_client) \subseteq Elements(conn[s].to_client) \cup {mc}
  BY <1>0, <1>4, ToClientFields
<1> HIDE DEF p, q
<1>8. devices' = devices /\ Later(devices, devices')
  BY <1>2, SameStore DEF storeVars, SessionInv
<1>9. CASE quiet <= 2 /\ SetConn(s, ping)
  <2>1. /\ ping.quiet = quiet /\ ping.at = p.at /\ ping.client = p.client
        /\ ping.device = p.device /\ ping.target = p.target /\ ping.writer = p.writer
        /\ ping.up = p.up /\ ping.why = p.why /\ ping.to_server = p.to_server
        /\ ping.to_client = p.to_client
    BY <1>5, <1>6 DEF Socket
  <2> HIDE DEF ping
  <2>2. Live(ping, devices)
    BY <1>1, <1>4, <1>5, <1>6, <1>9, <2>1 DEF Live, Known
  <2>3. Reached(ping)
    BY <1>1, <1>4, <1>6, <2>1 DEF Reached
  <2> QED
    BY <1>2, <1>5, <1>6, <1>8, <1>9, <2>1, <2>2, <2>3, ConnKeeps
<1>10. CASE ~(quiet <= 2) /\ (SetConn(s, silent) \/ SetConn(s, ended))
  <2>1. conn[s].quiet = 2
    BY <1>5, <1>10
  <2>2. conn[s].up /\ conn[s].client # {} => w = "request"
    <3> SUFFICES ASSUME conn[s].up, conn[s].client # {} PROVE w = "request"
      OBVIOUS
    <3>1. conn[s].to_client = << >> /\ (conn[s].to_server # << >> => Working(s))
      BY <1>2 DEF Prompt
    <3>2. conn[s].to_server # << >>
      BY <1>1, <1>2, <2>1, <3>1, ElementsEmpty DEF Reached
    <3> QED
      BY <1>11, <3>1, <3>2
  <2>3. /\ silent \in Socket /\ silent.writer = FALSE /\ silent.at = q.at
        /\ silent.client = q.client /\ silent.device = q.device /\ silent.target = q.target
        /\ silent.quiet = q.quiet /\ silent.up = q.up /\ silent.why = w
        /\ silent.to_server = q.to_server /\ silent.to_client = q.to_client
    BY <1>7, <1>11 DEF Socket
  <2> HIDE DEF silent
  <2>4. /\ ended.at = "closed" /\ ended.to_server = << >> /\ ended.writer = FALSE
        /\ ended.client = q.client /\ ended.device = q.device /\ ended.target = q.target
        /\ ended.quiet = q.quiet /\ ended.up = q.up /\ ended.to_client = q.to_client
        /\ ended.why = w
    BY <2>3 DEF Socket
  <2> HIDE DEF ended
  <2>5. Live(silent, devices) /\ Live(ended, devices)
    <3>1. Live(silent, devices)
      BY <1>1, <1>4, <1>5, <1>7, <2>3 DEF Live, Known
    <3>2. Live(ended, devices)
      BY <1>1, <1>4, <1>5, <1>7, <2>4, ElementsEmpty DEF Live, Known
    <3> QED
      BY <3>1, <3>2
  <2>6. Reached(silent) /\ Reached(ended)
    BY <1>7, <2>2, <2>3, <2>4 DEF Reached
  <2>7. CASE SetConn(s, silent)
    BY <1>2, <1>5, <1>7, <1>8, <2>3, <2>5, <2>6, <2>7, ConnKeeps
  <2>8. CASE SetConn(s, ended)
    BY <1>2, <1>7, <1>8, <2>4, <2>5, <2>6, <2>8, ConnKeeps
  <2> QED
    BY <1>10, <2>7, <2>8
<1> QED
  BY <1>3, <1>9, <1>10

LEMMA CutLink ==
    ASSUME SessionInv, LinkInv, NEW s \in Slot, Cut(s)
    PROVE  LinkInv'
<1>1. conn[s] \in Socket /\ Live(conn[s], devices)
  BY LinkFacts
<1> DEFINE r == [conn[s] EXCEPT !.up = FALSE, !.to_server = << >>, !.to_client = << >>]
<1>2. SetConn(s, r) /\ UNCHANGED <<storeVars, clientVars>> /\ Input
  BY DEF Cut
<1>3. /\ r.up = FALSE /\ r.to_server = << >> /\ r.to_client = << >> /\ r.at = conn[s].at
      /\ r.client = conn[s].client /\ r.device = conn[s].device /\ r.target = conn[s].target
      /\ r.quiet = conn[s].quiet /\ r.writer = conn[s].writer
  BY <1>1 DEF Socket
<1> HIDE DEF r
<1>4. Live(r, devices) /\ Reached(r)
  BY <1>1, <1>3, ElementsEmpty DEF Live, Reached
<1>5. devices' = devices /\ Later(devices, devices')
  BY <1>2, SameStore DEF storeVars, SessionInv
<1> QED
  BY <1>2, <1>3, <1>4, <1>5, ConnKeeps

\* Every connection ends; the clients stay on theirs until they notice.
LEMMA RestartLink ==
    ASSUME SessionInv, LinkInv, DaemonRestart
    PROVE  LinkInv'
<1>1. /\ devices' = devices /\ client' = client /\ stored' = stored /\ profile' = profile /\ Input
  BY DEF DaemonRestart, storeVars, clientVars
<1>2. ASSUME NEW s \in Slot
      PROVE  /\ Live(conn'[s], devices) /\ Reached(conn'[s])
             /\ conn'[s].client = conn[s].client
             /\ \A c \in Client : conn[s].client = {c} => On(client[c], conn'[s])
  <2> DEFINE q == Closed(conn[s])
             r == [q EXCEPT !.op = "none", !.target = 0]
  <2>1. conn'[s] = IF conn[s] = NoConn THEN NoConn ELSE Settle(r)
    BY DEF DaemonRestart
  <2>2. conn[s] \in Socket /\ Live(conn[s], devices) /\ Reached(conn[s])
    BY LinkFacts
  <2>3. /\ q \in Socket /\ q.at = "closed" /\ q.client = conn[s].client /\ q.device = conn[s].device
        /\ Live(q, devices) /\ Reached(q)
    BY <2>2, ClosedLive
  <2> HIDE DEF q
  <2>4. /\ r.at = "closed" /\ r.target = 0 /\ r.client = q.client /\ r.device = q.device
        /\ r.quiet = q.quiet /\ r.writer = q.writer /\ r.up = q.up /\ r.why = q.why
        /\ r.to_server = q.to_server /\ r.to_client = q.to_client
    BY <2>3 DEF Socket
  <2> HIDE DEF r
  <2>5. Live(r, devices) /\ Reached(r)
    BY <2>3, <2>4 DEF Live, Reached, Known
  <2>6. \A c \in Client : conn[s].client = {c} => On(client[c], r)
    BY <2>3, <2>4 DEF LinkInv, On
  <2>7. CASE conn'[s] = r
    BY <2>3, <2>4, <2>5, <2>6, <2>7
  <2>8. CASE conn'[s] = NoConn /\ conn[s].client = {}
    BY <2>8, NoConnLive
  <2>9. (conn'[s] = r) \/ (conn'[s] = NoConn /\ conn[s].client = {})
    BY <2>1, <2>3, <2>4, NoConnLive DEF Settle
  <2> QED
    BY <2>7, <2>8, <2>9
<1>3. \A c \in Client, s \in Slot :
         /\ client'[c].slot = {s} <=> conn'[s].client = {c}
         /\ conn'[s].client = {c} => On(client'[c], conn'[s])
  BY <1>1, <1>2 DEF LinkInv
<1>4. inputs' \in 0 .. MaxInputs /\ profile' \in [Client -> BOOLEAN]
  BY <1>1, LinkFacts, InputTyped
<1>5. \A s \in Slot : conn'[s].client = {} \/ \E c \in Client : conn'[s].client = {c}
  BY <1>2 DEF LinkInv
<1>6. \A c \in Client : Keeps(client'[c], stored'[c], devices')
  BY <1>1 DEF LinkInv
<1> QED
  BY <1>1, <1>2, <1>3, <1>4, <1>5, <1>6 DEF LinkInv

\* Steps of the store alone.
LEMMA StoreLink ==
    ASSUME SessionInv, LinkInv, Later(devices, devices'), UNCHANGED <<conn, clientVars>>,
           Input \/ UNCHANGED inputs
    PROVE  LinkInv'
<1>1. conn' = conn /\ client' = client /\ stored' = stored /\ profile' = profile
  BY DEF clientVars
<1>2. \A s \in Slot : Live(conn'[s], devices') /\ Reached(conn'[s])
  BY <1>1, LiveLater, LinkFacts
<1>3. \A c \in Client : Keeps(client'[c], stored'[c], devices')
  BY <1>1, KeepsLater DEF LinkInv
<1>4. inputs' \in 0 .. MaxInputs /\ profile' \in [Client -> BOOLEAN]
  BY <1>1, LinkFacts, InputTyped
<1> QED
  BY <1>1, <1>2, <1>3, <1>4 DEF LinkInv

---------------------------------------------------------------------------
LEMMA InitLink ==
    ASSUME Init PROVE LinkInv
<1>1. /\ \A s \in Slot : conn[s] = NoConn
      /\ \A c \in Client : client[c] = Off /\ stored[c] = {}
      /\ profile \in [Client -> BOOLEAN] /\ inputs \in 0 .. MaxInputs
  BY SessionAssumption DEF Init
<1>2. Off.slot = {} /\ Off.at = "off" /\ Off.active = {}
  BY DEF Off
<1>3. \A c \in Client : Keeps(client[c], stored[c], devices)
  BY <1>1, <1>2 DEF Keeps
<1>4. \A c \in Client, s \in Slot : client[c].slot # {s} /\ conn[s].client # {c}
  BY <1>1, <1>2, NoConnLive
<1>5. \A s \in Slot : Live(conn[s], devices) /\ Reached(conn[s]) /\ conn[s].client = {}
  BY <1>1, NoConnLive
<1> QED
  BY <1>1, <1>3, <1>4, <1>5 DEF LinkInv

LEMMA NextLink ==
    ASSUME SessionInv, LinkInv, [Next]_vars PROVE LinkInv'
<1>0. StoreInv
  BY DEF SessionInv
<1>1. ASSUME NEW k \in Link, CreatePairing(k) \/ LinkExpires(k) PROVE LinkInv'
  <2>1. Later(devices, devices')
    BY <1>0, <1>1, CreateKeepsStore DEF CreatePairing, LinkExpires
  <2>2. UNCHANGED <<conn, clientVars>> /\ (Input \/ UNCHANGED inputs)
    BY <1>1 DEF CreatePairing, LinkExpires
  <2> QED
    BY <2>1, <2>2, StoreLink
<1>2. ASSUME NEW c \in Client, ClientStep(c) PROVE LinkInv'
  BY <1>2, ButtonsLink, ReadWelcomeLink, LeavingLink, ClientMessagesLink, ConnectLink
     DEF ClientStep
<1>3. ASSUME NEW c \in Client,
             \/ \E k \in Link : PairAndConnect(c, k)
             \/ ConnectSaved(c) \/ ConnectFails(c)
      PROVE  LinkInv'
  BY <1>3, ButtonsLink
<1>4. ASSUME NEW c \in Client, Quit(c) \/ LoseConnection(c) PROVE LinkInv'
  BY <1>4, LeavingLink
<1>5. ASSUME NEW c \in Client,
             \E op \in Requests, d \in Device \cup {0} : SendRequest(c, op, d)
      PROVE  LinkInv'
  BY <1>5, ClientMessagesLink
<1>6. ASSUME NEW s \in Slot,
             AuthenticationTimeout(s) \/ ReadClientClose(s) \/ ServerLosesConnection(s)
      PROVE  LinkInv'
  <2>1. /\ SetConn(s, Closed(conn[s])) /\ UNCHANGED <<storeVars, clientVars>>
        /\ Input \/ UNCHANGED inputs
    BY <1>6 DEF AuthenticationTimeout, ReadClientClose, ServerLosesConnection
  <2> QED
    BY <2>1, ClosingLink
<1>7. ASSUME NEW s \in Slot, ServerStep(s) PROVE LinkInv'
  BY <1>6, <1>7, ReadHelloLink, SendWelcomeLink, ReadingLink, FinishRequestLink DEF ServerStep
<1>8. ASSUME NEW s \in Slot, Heartbeat(s) \/ Cut(s) PROVE LinkInv'
  BY <1>8, HeartbeatLink, CutLink
<1>9. CASE DaemonRestart
  BY <1>9, RestartLink
<1>10. CASE UNCHANGED vars
  <2>1. UNCHANGED <<conn, clientVars>> /\ UNCHANGED inputs /\ UNCHANGED storeVars
    BY <1>10 DEF vars
  <2>2. Later(devices, devices')
    BY <1>0, <2>1, SameStore
  <2> QED
    BY <2>1, <2>2, StoreLink
<1> QED
  BY <1>1, <1>2, <1>3, <1>4, <1>5, <1>6, <1>7, <1>8, <1>9, <1>10 DEF Next

\* The invariant of clients and their connections: who is on which connection,
\* as which device, with which credential stored, and what is under way.
THEOREM LinkInvariant == Spec => []LinkInv
  BY InitLink, NextLink, SessionInvariant, PTL DEF Spec

\* A client that reports itself connected has stored the credential of the
\* device it is connected as, and the daemon knows that device, wherever
\* pairings, cuts, failing keyrings and restarts fell (accept_credential).
THEOREM PairedMeansStoredCorrect == Spec => []PairedMeansStored
<1>1. ASSUME SessionInv, LinkInv PROVE PairedMeansStored
  <2> SUFFICES ASSUME NEW c \in Client, client[c].at = "connected"
               PROVE  /\ stored[c] = client[c].active
                      /\ \A d \in stored[c] : d \in DOMAIN devices
                      /\ \A s \in client[c].slot :
                            conn[s].at \in {"open", "busy"} => stored[c] = {conn[s].device}
    BY DEF PairedMeansStored
  <2>1. Keeps(client[c], stored[c], devices)
    BY <1>1 DEF LinkInv
  <2>2. /\ client[c].active # {} /\ stored[c] = client[c].active
        /\ stored[c] \subseteq DOMAIN devices /\ client[c].slot # {}
    BY <2>1 DEF Keeps
  <2>3. PICK t : t = TheSlot(c)
    OBVIOUS
  <2>4. t \in Slot /\ client[c].slot = {t} /\ On(client[c], conn[t])
    BY <1>1, <2>2, <2>3, OnSlot
  <2>5. conn[t].device # 0 /\ client[c].active = {conn[t].device}
    BY <2>2, <2>4 DEF On
  <2> QED
    BY <2>2, <2>4, <2>5
<1> QED
  BY <1>1, SessionInvariant, LinkInvariant, PTL

\* The heartbeat takes no client for silent that reads its socket over a network
\* that works, however long requests take: it ends such a connection only if the
\* connection's task was executing a request while the answer to a ping waited
\* (run_writer, last_activity), for any requests, faults and restarts.
THEOREM HeartbeatSparesCorrect == Spec => []HeartbeatSpares
<1>1. LinkInv => HeartbeatSpares
  BY DEF LinkInv, Reached, HeartbeatSpares
<1> QED
  BY <1>1, LinkInvariant, PTL

---------------------------------------------------------------------------
\* The state stays well formed, and there are no more devices than links.

LEMMA DevicesBounded == ASSUME SessionInv PROVE Len(devices) <= Cardinality(Link)
<1>1. /\ devices \in Seq(DeviceRecord) /\ Len(devices) \in Nat
      /\ DOMAIN devices = 1 .. Len(devices)
  BY DEF SessionInv, StoreInv
<1> DEFINE f == [d \in 1 .. Len(devices) |-> devices[d].from]
<1>2. f \in [1 .. Len(devices) -> Link]
  <2>1. \A d \in 1 .. Len(devices) : devices[d] \in DeviceRecord
    BY <1>1
  <2>2. \A d \in 1 .. Len(devices) : devices[d].from \in Link
    BY <2>1 DEF DeviceRecord
  <2> QED
    BY <2>2
<1>3. \A d, e \in 1 .. Len(devices) : f[d] = f[e] => d = e
  BY <1>1 DEF SessionInv, StoreInv, PairingSingleUse
<1>4. f \in Injection(1 .. Len(devices), Link)
  BY <1>2, <1>3 DEF Injection, IsInjective
<1>5. IsFiniteSet(Link)
  BY DevicesAssumption
<1>6. Cardinality(1 .. Len(devices)) <= Cardinality(Link)
  BY <1>4, <1>5, FS_Injection
<1>7. Cardinality(1 .. Len(devices)) = Len(devices)
  BY <1>1, FS_Interval
<1> QED
  BY <1>6, <1>7

LEMMA DevicesInRange ==
    ASSUME SessionInv
    PROVE  DOMAIN devices \subseteq Device /\ \A d : Known(d, devices) => d \in Device \cup {0}
<1>1. DOMAIN devices = 1 .. Len(devices) /\ Len(devices) \in Nat
  BY DEF SessionInv, StoreInv
<1>2. Cardinality(Link) \in Nat
  BY DevicesAssumption, FS_CardinalityType
<1>3. DOMAIN devices \subseteq Device
  BY <1>1, <1>2, DevicesBounded DEF Device
<1> QED
  BY <1>3 DEF Known

LEMMA QueueTyped ==
    ASSUME NEW q \in Seq(Wire), \A m \in Elements(q) : m.device \in Device \cup {0}
    PROVE  q \in Seq(Message)
<1>1. /\ Len(q) \in Nat /\ DOMAIN q = 1 .. Len(q)
      /\ q = [i \in 1 .. Len(q) |-> q[i]]
      /\ \A i \in 1 .. Len(q) : q[i] \in Wire /\ q[i] \in Elements(q)
  BY DEF Elements
<1>2. \A i \in 1 .. Len(q) : q[i] \in Message
  BY <1>1 DEF Wire, Message
<1>3. q \in [1 .. Len(q) -> Message]
  BY <1>1, <1>2
<1> QED
  BY <1>1, <1>3

LEMMA ConnTyped ==
    ASSUME SessionInv, LinkInv, NEW s \in Slot
    PROVE  conn[s] \in Connection
<1> DEFINE r == conn[s]
<1>1. r \in Socket /\ Live(r, devices) /\ \A d \in r.revoked : d \in DOMAIN devices
  BY DEF SessionInv, ConnInv, GoodConn, LinkInv
<1> HIDE DEF r
<1>2. r.device \in Device \cup {0} /\ r.target \in Device \cup {0} /\ r.quiet \in 0 .. 2
  BY <1>1, DevicesInRange DEF Live, Socket
<1>3. r.revoked \subseteq Device
  BY <1>1, DevicesInRange
<1>4. r.to_client \in Seq(Message) /\ r.to_server \in Seq(Message)
  <2>1. r.to_client \in Seq(Wire) /\ r.to_server \in Seq(Wire)
    BY <1>1 DEF Socket
  <2>2. /\ \A m \in Elements(r.to_client) : m.device \in Device \cup {0}
        /\ \A m \in Elements(r.to_server) : m.device \in Device \cup {0}
    BY <1>1, DevicesInRange DEF Live
  <2> QED
    BY <2>1, <2>2, QueueTyped
<1>5. r \in Connection
  BY <1>1, <1>2, <1>3, <1>4 DEF Socket, Connection
<1> QED
  BY <1>5 DEF r

\* There are never more devices than links, every device a connection or a
\* client names is one of them, and a connection and the client on it name each
\* other (exchange_pairing; run of client.rs, run_connection of server.rs).
THEOREM SessionTypeCorrect == Spec => []TypeOK
<1>1. ASSUME SessionInv, LinkInv PROVE TypeOK
  <2>1. DevicesTypeOK
    BY <1>1, DevicesBounded DEF DevicesTypeOK, SessionInv, StoreInv
  <2>2. conn \in [Slot -> Connection]
    <3>1. conn = [s \in Slot |-> conn[s]]
      BY <1>1 DEF SessionInv, ConnInv
    <3>2. \A s \in Slot : conn[s] \in Connection
      BY <1>1, ConnTyped
    <3> QED
      BY <3>1, <3>2
  <2>3. \A c \in Client : stored[c] \subseteq Device /\ client[c].active \subseteq Device
    <3> SUFFICES ASSUME NEW c \in Client
                 PROVE  stored[c] \subseteq Device /\ client[c].active \subseteq Device
      OBVIOUS
    <3>1. Keeps(client[c], stored[c], devices)
      BY <1>1 DEF LinkInv
    <3>2. stored[c] \subseteq DOMAIN devices
          /\ (client[c].active = {} \/ client[c].active = stored[c])
      BY <3>1 DEF Keeps
    <3> QED
      BY <1>1, <3>2, DevicesInRange
  <2>4. client \in [Client ->
           [at : {"off", "connecting", "hello", "connected", "waiting", "stopped"},
            source : SUBSET Link, active : SUBSET Device, slot : SUBSET Slot]]
    <3>1. client \in [Client -> Runner]
      BY <1>1 DEF SessionInv, ClientInv
    <3> QED
      BY <2>3, <3>1 DEF Runner
  <2>5. stored \in [Client -> SUBSET Device]
    BY <1>1, <2>3 DEF SessionInv, ClientInv
  <2>6. /\ profile \in [Client -> BOOLEAN] /\ inputs \in 0 .. MaxInputs
        /\ \A c \in Client :
              /\ (client[c].slot # {}) <=> (client[c].at \in {"hello", "connected"})
              /\ \A s \in Slot : client[c].slot = {s} <=> conn[s].client = {c}
    BY <1>1 DEF LinkInv, Keeps
  <2> QED
    BY <2>1, <2>2, <2>4, <2>5, <2>6 DEF TypeOK
<1> QED
  BY <1>1, SessionInvariant, LinkInvariant, PTL
=============================================================================
