------------------------- MODULE ClientSetupProofs --------------------------
(***************************************************************************)
(* Proofs about ClientSetup, for every set of client variables, devices,   *)
(* environments and urls.                                                  *)
(***************************************************************************)
EXTENDS ClientSetup, FiniteSetTheorems, TLAPS

Ids == Devices \cup {NoDevice}
Clients == [alive : BOOLEAN, conn : Nat, path : BOOLEAN, secret : Secrets, device : Ids]

\* A variable that holds no client has no connection.
Consistent(c) == c \in Clients /\ (~c.alive => c.conn = 0)

\* Who owns which connection.
Ownership ==
    /\ conns \in 0..MaxConns /\ open \subseteq 1..conns
    /\ \A o \in Objects : client[o].conn # 0 => client[o].conn \in open
    /\ \A o, p \in Objects : client[o].conn = client[p].conn /\ client[o].conn # 0 => o = p
    /\ \A c \in open : \E o \in Objects : client[o].conn = c

IndInv ==
    /\ env \in Environments /\ client \in [Objects -> Clients]
    /\ \A o \in Objects : Consistent(client[o])
    /\ Ownership
    /\ DeviceIdentity /\ dialled \in Nat \ {0}

-----------------------------------------------------------------------------
\* Both ends of a move are clients.
LEMMA MovedTypes ==
    ASSUME NEW c \in Clients, NEW d \in Ids
    PROVE  MovedTo(c, d) \in Clients /\ MovedFrom(c) \in Clients
<1>1. c.alive \in BOOLEAN /\ c.path \in BOOLEAN
  BY DEF Clients
<1>2. MovedTo(c, d) \in Clients
  BY DEF MovedTo, Clients
<1>3. MovedFrom(c) \in Clients
  BY DEF MovedFrom, Clients, Secrets
<1> QED
  BY <1>2, <1>3

\* A client takes the place of another one, or of none: with a new connection or without.
LEMMA BecomesKeepsOwnership ==
    ASSUME Ownership, client \in [Objects -> Clients], NEW o \in Objects, NEW c \in Clients,
           c.conn = 0 \/ (c.conn = conns + 1 /\ conns < MaxConns), Becomes(o, c)
    PROVE  Ownership' /\ client' \in [Objects -> Clients]
<1> USE DEF Ownership
<1>1. client' \in [Objects -> Clients] /\ client'[o] = c
      /\ \A p \in Objects \ {o} : client'[p] = client[p]
  BY DEF Becomes
<1>2. \A p \in Objects : client[p].conn \in Nat /\ client'[p].conn \in Nat
  BY <1>1 DEF Clients
<1>3. CASE c.conn = 0
  <2>1. conns' = conns /\ open' = open \ {client[o].conn}
    BY <1>3 DEF Becomes
  <2>2. \A p \in Objects : client'[p].conn # 0 => client'[p].conn \in open'
    BY <1>1, <1>2, <1>3, <2>1
  <2>3. \A p, q \in Objects : client'[p].conn = client'[q].conn /\ client'[p].conn # 0 => p = q
    BY <1>1, <1>3
  <2>4. \A n \in open' : \E p \in Objects : client'[p].conn = n
    BY <1>1, <2>1
  <2> QED
    BY <1>1, <2>1, <2>2, <2>3, <2>4
<1>4. CASE c.conn = conns + 1 /\ conns < MaxConns
  <2>1. conns' = conns + 1 /\ open' = (open \ {client[o].conn}) \cup {conns + 1}
    BY <1>4 DEF Becomes
  <2>2. \A p \in Objects : client[p].conn # conns + 1
    BY <1>2
  <2>3. \A p \in Objects : client'[p].conn # 0 => client'[p].conn \in open'
    BY <1>1, <1>2, <1>4, <2>1
  <2>4. \A p, q \in Objects : client'[p].conn = client'[q].conn /\ client'[p].conn # 0 => p = q
    BY <1>1, <1>4, <2>2
  <2>5. \A n \in open' : \E p \in Objects : client'[p].conn = n
    BY <1>1, <1>4, <2>1
  <2>6. conns' \in 0..MaxConns /\ open' \subseteq 1..conns'
    <3>1. MaxConns \in Nat /\ conns \in Nat
      BY SetupAssumption
    <3>2. \A n \in open' : n \in 1..conns'
      BY <2>1, <3>1
    <3>3. conns' \in 0..MaxConns
      BY <1>4, <2>1, <3>1
    <3> QED
      BY <3>2, <3>3
  <2> QED
    BY <1>1, <2>3, <2>4, <2>5, <2>6
<1> QED
  BY <1>3, <1>4

\* The connection goes from p to o, whose own one, if any, is closed.
LEMMA MoveKeepsOwnership ==
    ASSUME Ownership, client \in [Objects -> Clients], NEW o \in Objects, NEW p \in Objects,
           o # p, NEW d \in Ids,
           client' = [client EXCEPT ![o] = MovedTo(client[p], d), ![p] = MovedFrom(@)],
           open' = open \ {client[o].conn}, conns' = conns
    PROVE  Ownership' /\ client' \in [Objects -> Clients]
<1> USE DEF Ownership
<1>1. MovedTo(client[p], d) \in Clients /\ MovedFrom(client[p]) \in Clients
  BY MovedTypes
<1>2. client' \in [Objects -> Clients] /\ client'[o].conn = client[p].conn
      /\ client'[p].conn = 0
      /\ \A q \in Objects \ {o, p} : client'[q] = client[q]
  BY <1>1 DEF MovedTo, MovedFrom, Clients
<1>3. \A q \in Objects : client[q].conn \in Nat /\ client'[q].conn \in Nat
  BY <1>2 DEF Clients
<1>4. \A q \in Objects : client'[q].conn # 0 => client'[q].conn \in open'
  BY <1>2, <1>3
<1>5. \A q, r \in Objects : client'[q].conn = client'[r].conn /\ client'[q].conn # 0 => q = r
  BY <1>2, <1>3
<1>6. \A c \in open' : \E q \in Objects : client'[q].conn = c
  <2> SUFFICES ASSUME NEW c \in open, c # client[o].conn, c # 0
               PROVE  \E q \in Objects : client'[q].conn = c
    OBVIOUS
  <2>1. PICK q \in Objects : client[q].conn = c
    OBVIOUS
  <2>2. CASE q = p
    BY <1>2, <2>1, <2>2
  <2>3. CASE q # p
    BY <1>2, <2>1, <2>3
  <2> QED
    BY <2>2, <2>3
<1> QED
  BY <1>2, <1>4, <1>5, <1>6

\* Opening, closing and constructing leave the identity of a client alone.
LEMMA BecomesKeeps ==
    ASSUME IndInv, NEW o \in Objects, NEW c, Consistent(c), Becomes(o, c), UNCHANGED <<env, reg>>,
           c.conn = 0 \/ (c.conn = conns + 1 /\ conns < MaxConns), dialled' \in Nat \ {0}
    PROVE  IndInv'
<1>1. c \in Clients
  BY DEF Consistent
<1>2. Ownership' /\ client' \in [Objects -> Clients]
  BY <1>1, BecomesKeepsOwnership DEF IndInv
<1>3. \A p \in Objects : Consistent(client[p])' 
  <2> SUFFICES ASSUME NEW p \in Objects
               PROVE  Consistent(client[p])'
    OBVIOUS
  <2>1. client'[p] = client[p] \/ client'[p] = c
    BY DEF Becomes, IndInv
  <2>2. Consistent(client[p])
    BY DEF IndInv
  <2> QED
    BY <2>1, <2>2 DEF Consistent
<1>4. DeviceIdentity'
  BY DEF IndInv, DeviceIdentity
<1> QED
  BY <1>2, <1>3, <1>4 DEF IndInv

\* Moving: the source is left without a connection.
LEMMA MoveKeeps ==
    ASSUME IndInv, NEW o \in Objects, NEW p \in Objects, MoveConstruct(o, p) \/ MoveAssign(o, p)
    PROVE  IndInv'
<1> DEFINE d == IF client[o].alive THEN client[o].device ELSE NoDevice
<1>1. d \in Ids
  BY DEF IndInv, Clients, Ids
<1>2. /\ o # p /\ client[p].alive
      /\ client' = [client EXCEPT ![o] = MovedTo(client[p], d), ![p] = MovedFrom(@)]
      /\ open' = open \ {client[o].conn} /\ UNCHANGED <<env, conns, dialled, reg>>
  <2>1. CASE MoveConstruct(o, p)
    <3>1. client[o].conn = 0 /\ 0 \notin open
      BY <2>1 DEF MoveConstruct, IndInv, Consistent, Ownership
    <3> QED
      BY <2>1, <3>1 DEF MoveConstruct
  <2>2. CASE MoveAssign(o, p)
    BY <2>2 DEF MoveAssign
  <2> QED
    BY <2>1, <2>2
<1>3. Ownership' /\ client' \in [Objects -> Clients]
  <2> HIDE DEF d
  <2> QED
    BY <1>1, <1>2, MoveKeepsOwnership DEF IndInv
<1>4. \A q \in Objects : Consistent(client[q])'
  <2> SUFFICES ASSUME NEW q \in Objects
               PROVE  Consistent(client[q])'
    OBVIOUS
  <2> HIDE DEF d
  <2>1. Consistent(client[q]) /\ Consistent(client[p]) /\ client[p] \in Clients
    BY DEF IndInv
  <2>2. CASE q = o
    <3>1. client'[q] = MovedTo(client[p], d)
      BY <1>2, <2>2 DEF IndInv
    <3>2. client'[q].alive = client[p].alive /\ client'[q].conn = client[p].conn
      BY <3>1, <2>1 DEF MovedTo, Clients
    <3> QED
      BY <1>2, <1>3, <2>1, <3>2 DEF Consistent
  <2>3. CASE q = p
    <3>1. client'[q] = MovedFrom(client[p])
      BY <1>2, <2>3 DEF IndInv
    <3>2. client'[q].conn = 0
      BY <3>1, <2>1 DEF MovedFrom, Clients
    <3> QED
      BY <1>2, <1>3, <2>1, <3>2 DEF Consistent
  <2>4. CASE q \notin {o, p}
    BY <1>2, <2>1, <2>4 DEF Consistent, IndInv
  <2> QED
    BY <2>2, <2>3, <2>4
<1>5. DeviceIdentity'
  BY <1>2 DEF IndInv, DeviceIdentity
<1> QED
  BY <1>2, <1>3, <1>4, <1>5 DEF IndInv

-----------------------------------------------------------------------------
\* A port is never 0.
LEMMA PortIsPositive ==
    ASSUME NEW u \in Urls
    PROVE  PortOf(u) \in Nat \ {0}
<1>1. u.port \in Int /\ PortSpace \in Nat \ {0}
  BY SetupAssumption
<1>2. u.port % PortSpace \in Nat
  BY <1>1
<1> QED
  BY <1>2 DEF PortOf

\* Giving a client another connection, or none.
LEMMA WithConn ==
    ASSUME NEW c, Consistent(c), c.alive, NEW n \in Nat
    PROVE  Consistent([c EXCEPT !.conn = n]) /\ [c EXCEPT !.conn = n].conn = n
BY DEF Consistent, Clients

\* A new connection.
LEMMA OpenedIsConsistent ==
    ASSUME NEW c, Consistent(c), c.alive, conns \in Nat
    PROVE  Consistent(Opened(c)) /\ Opened(c).conn = conns + 1
<1>1. PICK n \in Nat : n = conns + 1
  OBVIOUS
<1>2. Opened(c) = [c EXCEPT !.conn = n]
  BY <1>1, Zenon DEF Opened
<1> QED
  BY <1>1, <1>2, WithConn

\* The clients that the constructors and the factories make.
LEMMA NewIsConsistent ==
    ASSUME NEW path \in BOOLEAN, NEW secret \in Secrets
    PROVE  /\ Consistent(NoClient) /\ NoClient.conn = 0
           /\ Consistent(New(path, secret)) /\ New(path, secret).conn = 0
           /\ New(path, secret).alive /\ New(path, secret).secret = secret
           /\ New(path, secret).device = NoDevice
<1>1. NoClient \in Clients /\ NoClient.conn = 0 /\ NoClient.device = NoDevice
  BY DEF NoClient, Clients, Secrets, Ids
<1>2. /\ New(path, secret) \in Clients /\ New(path, secret).conn = 0
      /\ New(path, secret).device = NoDevice /\ New(path, secret).alive = TRUE
      /\ New(path, secret).secret = secret
  BY <1>1 DEF New, NoClient, Clients
<1> QED
  BY <1>1, <1>2 DEF Consistent

\* The client connect_ws_device returns, whatever the compiler does.
LEMMA WsDeviceIsConsistent ==
    ASSUME NEW id \in Ids
    PROVE  /\ Consistent(WsDeviceClient(id)) /\ WsDeviceClient(id).alive
           /\ WsDeviceClient(id).secret = "device"
           /\ Elides => WsDeviceClient(id).device = id
<1>1. PICK d \in Ids : d = IF Elides THEN id ELSE NoDevice
  BY DEF Ids
<1>2. /\ New(FALSE, "device") \in Clients /\ New(FALSE, "device").conn = 0
      /\ New(FALSE, "device").alive /\ New(FALSE, "device").secret = "device"
  BY NewIsConsistent DEF Consistent, Secrets
<1>3. WsDeviceClient(id) = [New(FALSE, "device") EXCEPT !.device = d]
  BY <1>1 DEF WsDeviceClient
<1> QED
  BY <1>1, <1>2, <1>3 DEF Consistent, Clients

\* connect_ws with any client.
LEMMA ConnectWsKeeps ==
    ASSUME IndInv, NEW o \in Objects, NEW u \in Urls, NEW c, ConnectWs(o, u, c),
           Consistent(c), c.alive
    PROVE  IndInv'
<1>1. dialled' \in Nat \ {0}
  BY PortIsPositive DEF ConnectWs
<1>2. Consistent(Opened(c)) /\ Opened(c).conn = conns + 1
  BY OpenedIsConsistent DEF IndInv, Ownership
<1> QED
  BY <1>1, <1>2, BecomesKeeps DEF ConnectWs

\* run_ws: credentials that do not throw name the environment's device or none.
LEMMA RunWsKeeps ==
    ASSUME IndInv, NEW u \in Urls, RunWs(u)
    PROVE  IndInv'
<1>1. /\ env.jwt_secret \in BOOLEAN /\ env.device_secret \in BOOLEAN /\ env.device_id \in Ids
  BY SetupAssumption DEF IndInv, EnvSpace, Ids
<1> DEFINE creds == resolve_ws_credentials
<1>2. \/ /\ creds.kind = "device" /\ creds.device = env.device_id
         /\ env.device_id # NoDevice /\ env.device_secret /\ ~env.jwt_secret
      \/ /\ creds.kind # "device" /\ env.device_id = NoDevice /\ ~env.device_secret
         /\ creds.secret = IF env.jwt_secret THEN "master" ELSE "none"
  BY <1>1 DEF RunWs, resolve_ws_credentials, Device, Shared, Unsecured, Throws
<1>3. UNCHANGED <<env, client, open, conns>> /\ dialled' \in Nat \ {0}
  BY PortIsPositive DEF RunWs
<1>4. DeviceIdentity'
  <2>1. CASE creds.kind = "device"
    <3>1. reg' = Registration(WsDeviceClient(creds.device), "run_ws")
      BY <2>1 DEF RunWs
    <3>2. /\ WsDeviceClient(creds.device).secret = "device"
          /\ Elides => WsDeviceClient(creds.device).device = creds.device
      BY <1>1, <1>2, <2>1, WsDeviceIsConsistent
    <3> QED
      BY <1>2, <1>3, <2>1, <3>1, <3>2 DEF Registration, DeviceIdentity
  <2>2. CASE creds.kind # "device"
    <3>1. reg' = Registration(New(FALSE, creds.secret), "run_ws")
      BY <2>2 DEF RunWs
    <3>2. New(FALSE, creds.secret).secret = creds.secret
          /\ New(FALSE, creds.secret).device = NoDevice
      BY <1>2, <2>2, NewIsConsistent DEF Secrets
    <3> QED
      BY <1>2, <1>3, <2>2, <3>1, <3>2 DEF Registration, DeviceIdentity
  <2> QED
    BY <2>1, <2>2
<1> QED
  BY <1>3, <1>4 DEF IndInv, Ownership, Consistent

\* set_device_id.
LEMMA SetDeviceIdKeeps ==
    ASSUME IndInv, NEW o \in Objects, NEW id \in Devices, SetDeviceId(o, id)
    PROVE  IndInv'
<1>1. /\ client' = [client EXCEPT ![o] = [client[o] EXCEPT !.device = id]]
      /\ UNCHANGED <<env, open, conns, dialled, reg>>
  BY DEF SetDeviceId, IndInv
<1> DEFINE y == [client[o] EXCEPT !.device = id]
<1>2. y \in Clients /\ y.conn = client[o].conn /\ y.alive = client[o].alive
  BY DEF IndInv, Clients, Ids
<1>3. /\ client' \in [Objects -> Clients] /\ client'[o] = y
      /\ \A p \in Objects \ {o} : client'[p] = client[p]
  BY <1>1, <1>2 DEF IndInv
<1> HIDE DEF y
<1>4. \A p \in Objects : client'[p].conn = client[p].conn
  BY <1>2, <1>3
<1>5. Ownership'
  BY <1>1, <1>4 DEF IndInv, Ownership
<1>6. \A p \in Objects : Consistent(client[p])'
  BY <1>2, <1>3 DEF IndInv, Consistent
<1>7. DeviceIdentity'
  BY <1>1 DEF IndInv, DeviceIdentity
<1> QED
  BY <1>1, <1>3, <1>5, <1>6, <1>7 DEF IndInv

\* A registration through the interface is not run_ws's.
LEMMA RegisterKeeps ==
    ASSUME IndInv, NEW o \in Objects, Register(o)
    PROVE  IndInv'
<1>1. DeviceIdentity'
  BY DEF Register, Registration, DeviceIdentity
<1> QED
  BY <1>1 DEF IndInv, Register, Ownership, Consistent

\* Every step keeps the inductive invariant.
LEMMA StepKeeps ==
    ASSUME IndInv, [Next]_vars
    PROVE  IndInv'
<1>0. conns \in Nat /\ TRUE \in BOOLEAN /\ FALSE \in BOOLEAN /\ dialled \in Nat \ {0}
  BY DEF IndInv, Ownership
<1>1. ASSUME NEW o \in Objects, NEW path \in BOOLEAN, NEW secret \in Secrets,
             Construct(o, path, secret)
      PROVE  IndInv'
  BY <1>0, <1>1, NewIsConsistent, BecomesKeeps DEF Construct
<1>2. ASSUME NEW o \in Objects, NEW secret \in Secrets, Adopt(o, secret)
      PROVE  IndInv'
  BY <1>0, <1>2, NewIsConsistent, OpenedIsConsistent, BecomesKeeps DEF Adopt
<1>3. ASSUME NEW o \in Objects, ConnectFromEnv(o)
      PROVE  IndInv'
  <2>1. resolve_jwt_secret \in Secrets
    BY DEF resolve_jwt_secret, Secrets
  <2> QED
    BY <1>0, <1>3, <2>1, NewIsConsistent, OpenedIsConsistent, BecomesKeeps DEF ConnectFromEnv
<1>4. ASSUME NEW o \in Objects, Connect(o) \/ Close(o)
      PROVE  IndInv'
  <2>1. Consistent(client[o]) /\ client[o].alive /\ UNCHANGED <<env, dialled, reg>>
    BY <1>4 DEF IndInv, Connect, Close
  <2>2. CASE client[o].path /\ conns < MaxConns /\ Becomes(o, Opened(client[o]))
    BY <1>0, <2>1, <2>2, OpenedIsConsistent, BecomesKeeps
  <2>3. CASE Becomes(o, [client[o] EXCEPT !.conn = 0])
    BY <1>0, <2>1, <2>3, WithConn, BecomesKeeps
  <2> QED
    BY <1>4, <2>2, <2>3 DEF Connect, Close
<1>5. ASSUME NEW o \in Objects, Destroy(o)
      PROVE  IndInv'
  <2>1. NoClient.conn = 0 /\ "none" \in Secrets
    BY DEF NoClient, Secrets
  <2> QED
    BY <1>0, <1>5, <2>1, NewIsConsistent, BecomesKeeps DEF Destroy
<1>6. CASE UNCHANGED vars
  BY <1>6 DEF vars, IndInv, Ownership, Consistent, DeviceIdentity
<1>7. ASSUME NEW o \in Objects, NEW u \in Urls, NEW id \in Devices, ConnectWsDevice(o, u, id)
      PROVE  IndInv'
  BY <1>7, WsDeviceIsConsistent, ConnectWsKeeps DEF ConnectWsDevice, Ids
<1>8. ASSUME NEW o \in Objects, NEW u \in Urls, NEW secret \in Secrets,
             ConnectWsShared(o, u, secret)
      PROVE  IndInv'
  BY <1>0, <1>8, NewIsConsistent, ConnectWsKeeps DEF ConnectWsShared
<1> QED
  BY <1>1, <1>2, <1>3, <1>4, <1>5, <1>6, <1>7, <1>8, RunWsKeeps, SetDeviceIdKeeps,
     RegisterKeeps, MoveKeeps DEF Next

-----------------------------------------------------------------------------
\* The inductive invariant holds in every reachable state.
THEOREM Invariance == Spec => []IndInv
<1>1. Init => IndInv
  <2> SUFFICES ASSUME Init PROVE IndInv
    OBVIOUS
  <2>1. Consistent(NoClient) /\ NoClient \in Clients /\ NoClient.conn = 0
    BY NewIsConsistent DEF Init, Secrets, Consistent, NoClient
  <2>2. client \in [Objects -> Clients] /\ \A o \in Objects : client[o] = NoClient
    BY <2>1 DEF Init
  <2>3. DeviceIdentity
    BY DEF Init, Registration, DeviceIdentity
  <2>4. Ownership
    BY <2>1, <2>2, SetupAssumption DEF Init, Ownership
  <2> QED
    BY <2>1, <2>2, <2>3, <2>4 DEF Init, IndInv
<1> QED
  BY <1>1, StepKeeps, PTL DEF Spec

\* Every variable keeps its type and no connection is made to port 0 (parse_ws_url).
THEOREM TypeCorrect == Spec => []TypeOK
<1>1. IndInv => TypeOK
  BY DEF IndInv, TypeOK, Ownership, Clients, Ids
<1> QED
  BY <1>1, Invariance, PTL

\* Every open connection has exactly one owner, and no client owns a closed one, whatever
\* the sequence of constructions, moves, reconnections and destructions.
THEOREM Owned == Spec => []OneOwner
<1>1. ASSUME IndInv, NEW c \in open
      PROVE  Cardinality({o \in Objects : client[o].conn = c}) = 1
  <2>1. PICK o \in Objects : client[o].conn = c
    BY <1>1 DEF IndInv, Ownership
  <2>2. {p \in Objects : client[p].conn = c} = {o}
    BY <1>1, <2>1 DEF IndInv, Ownership
  <2> QED
    BY <2>2, FS_Singleton
<1>2. IndInv => OneOwner
  BY <1>1 DEF IndInv, Ownership, OneOwner
<1> QED
  BY <1>2, Invariance, PTL

\* run_ws registers as what the environment names: the paired device under its own secret,
\* or no device under the shared one, for every environment and either compiler.
THEOREM RegistersAsMeant == Spec => []DeviceIdentity
<1>1. IndInv => DeviceIdentity
  BY DEF IndInv
<1> QED
  BY <1>1, Invariance, PTL
=============================================================================
