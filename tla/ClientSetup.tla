---------------------------- MODULE ClientSetup -----------------------------
(***************************************************************************)
(* How clients come to be and to own a connection: the constructors,       *)
(* factories and move operations of VynkorClient (src/src/client.cpp), the *)
(* environment they read (src/src/env.cpp), the WebSocket url (src/src/    *)
(* ws.cpp) and the run functions of Plugin.                                *)
(*                                                                         *)
(* A connection is a number, an fd or a WsConnection; a moved-from or      *)
(* closed client has number 0.  Session keys are the business of module    *)
(* VynkorClient.                                                           *)
(***************************************************************************)
EXTENDS Integers, FiniteSets

CONSTANTS
    Objects,     \* variables that may hold a client
    Devices,     \* ids of paired devices
    NoDevice,    \* the empty device id
    Environments, \* environments a program may run in
    Urls,        \* WebSocket urls a program may pass
    PortSpace,   \* ports are taken modulo this (2^16)
    Elides,      \* the compiler constructs a returned local in place (it may move it)
    MaxConns     \* bound: connections opened

Secrets == {"master", "device", "none"}

EnvSpace ==
    [socket : {"unset", "good", "long"}, xdg : BOOLEAN, run_user : BOOLEAN, home : BOOLEAN,
     state_dir : BOOLEAN, jwt_secret : BOOLEAN, device_id : Devices \cup {NoDevice},
     device_secret : BOOLEAN]

ASSUME SetupAssumption ==
    /\ Environments \subseteq EnvSpace /\ Elides \in BOOLEAN
    /\ NoDevice \notin Devices /\ PortSpace \in Nat \ {0} /\ MaxConns \in Nat
    /\ \A u \in Urls : u.scheme \in STRING /\ u.host \in BOOLEAN /\ u.number \in BOOLEAN
                       /\ u.port \in Int

VARIABLES
    env,     \* the environment, and the directories default_socket_path looks for
    client,  \* the clients
    open,    \* connections that are open
    conns,   \* connections opened so far
    dialled, \* the port the last WebSocket connection was made to
    reg      \* the last registration: who made it, its session's secret and its device_id

vars == <<env, client, open, conns, dialled, reg>>

NoClient == [alive |-> FALSE, conn |-> 0, path |-> FALSE, secret |-> "none",
             device |-> NoDevice]
New(path, secret) == [NoClient EXCEPT !.alive = TRUE, !.path = path, !.secret = secret]

\* register_full sends device_id_; the session is keyed off the secret.
Registration(c, via) == [via |-> via, secret |-> c.secret, device |-> c.device]

Init ==
    /\ env \in Environments /\ client = [o \in Objects |-> NoClient]
    /\ open = {} /\ conns = 0 /\ dialled = 80 /\ reg = Registration(NoClient, "api")

-----------------------------------------------------------------------------
(***************************************************************************)
(* The environment.                                                        *)
(***************************************************************************)
\* The directory under $HOME is made only when its parent exists (mkdir makes one level).
ensure_private_dir == env.state_dir

\* Whether there is a path that fits sockaddr_un.
default_socket_path ==
    CASE env.socket # "unset" -> env.socket = "good"
      [] env.socket = "unset" -> env.xdg \/ env.run_user \/ (env.home /\ ensure_private_dir)

resolve_jwt_secret == IF env.jwt_secret THEN "master" ELSE "none"

Device(id)  == [kind |-> "device", device |-> id, secret |-> "device"]
Shared      == [kind |-> "shared", device |-> NoDevice, secret |-> "master"]
Unsecured   == [kind |-> "none", device |-> NoDevice, secret |-> "none"]
Throws      == [kind |-> "throws", device |-> NoDevice, secret |-> "none"]

\* Mutant: a device pair next to the master secret falls back to the secret.
resolve_ws_credentials_lenient ==
    CASE env.jwt_secret -> Shared
      [] ~env.jwt_secret /\ env.device_id # NoDevice /\ env.device_secret -> Device(env.device_id)
      [] OTHER -> Unsecured
resolve_ws_credentials ==
    CASE env.device_id # NoDevice /\ env.device_secret ->
           IF env.jwt_secret THEN Throws ELSE Device(env.device_id)
      [] (env.device_id # NoDevice) # env.device_secret -> Throws
      [] OTHER -> IF env.jwt_secret THEN Shared ELSE Unsecured

\* Mutant: port 0 is not replaced by the default.
PortOfKeepingZero(u) == u.port % PortSpace
\* The port is cut to 16 bits, then 0 means the scheme's default.
PortOf(u) ==
    IF u.port % PortSpace = 0 THEN (IF u.scheme = "wss" THEN 443 ELSE 80)
                              ELSE u.port % PortSpace

\* A scheme that is not ws or wss, no host, or a port that is no number: an exception.
ParsesUrl(u) == u.scheme \in {"ws", "wss"} /\ u.host /\ u.number

-----------------------------------------------------------------------------
(***************************************************************************)
(* Constructing and connecting.                                            *)
(***************************************************************************)
\* A new client in o, with its connection if it has one.
Becomes(o, c) ==
    /\ client' = [client EXCEPT ![o] = c]
    /\ open' = (open \ {client[o].conn}) \cup ({c.conn} \ {0})
    /\ conns' = IF c.conn > conns THEN c.conn ELSE conns

\* The outcomes of opening a connection for c: a new one, or none and an exception.
Opened(c) == [c EXCEPT !.conn = conns + 1]

Construct(o, path, secret) ==
    /\ ~client[o].alive /\ Becomes(o, New(path, secret))
    /\ UNCHANGED <<env, dialled, reg>>

\* VynkorClient(fd, secret), the socket being open already.
Adopt(o, secret) ==
    /\ ~client[o].alive /\ conns < MaxConns /\ Becomes(o, Opened(New(FALSE, secret)))
    /\ UNCHANGED <<env, dialled, reg>>

\* connect(): closes first; then there is a new socket or none.
Connect(o) ==
    /\ client[o].alive
    /\ \/ client[o].path /\ conns < MaxConns /\ Becomes(o, Opened(client[o]))
       \/ Becomes(o, [client[o] EXCEPT !.conn = 0])
    /\ UNCHANGED <<env, dialled, reg>>

\* connect_from_env and run_with: when they throw the local client is gone.
ConnectFromEnv(o) ==
    /\ ~client[o].alive /\ conns < MaxConns /\ default_socket_path
    /\ Becomes(o, Opened(New(TRUE, resolve_jwt_secret)))
    /\ UNCHANGED <<env, dialled, reg>>

\* connect_ws; what it throws leaves nothing behind.
ConnectWs(o, u, c) ==
    /\ ~client[o].alive /\ conns < MaxConns /\ ParsesUrl(u)
    /\ Becomes(o, Opened(c)) /\ dialled' = PortOf(u)
    /\ UNCHANGED <<env, reg>>

\* The client connect_ws_device returns.  A compiler that moves the local out of the
\* function leaves its device_id_ behind.
WsDeviceClient(id) == [New(FALSE, "device") EXCEPT !.device = IF Elides THEN id ELSE NoDevice]

ConnectWsDevice(o, u, id) == ConnectWs(o, u, WsDeviceClient(id))

ConnectWsShared(o, u, secret) == ConnectWs(o, u, New(FALSE, secret))

\* run_ws from its connection to the registration that serve begins with.  Its client is a
\* local variable: no one else ever holds it, and its connection is gone when it returns.
RunWs(u) ==
    LET creds == resolve_ws_credentials
    IN  /\ creds.kind # "throws" /\ ParsesUrl(u) /\ dialled' = PortOf(u)
        /\ reg' = Registration(IF creds.kind = "device" THEN WsDeviceClient(creds.device)
                                                       ELSE New(FALSE, creds.secret), "run_ws")
        /\ UNCHANGED <<env, client, open, conns>>

\* set_device_id: any id, on any client.
SetDeviceId(o, id) ==
    /\ client[o].alive /\ client' = [client EXCEPT ![o].device = id]
    /\ UNCHANGED <<env, open, conns, dialled, reg>>

-----------------------------------------------------------------------------
(***************************************************************************)
(* Moving, closing and registering.                                        *)
(***************************************************************************)
\* What a move leaves of its source: device_id_ is neither moved nor cleared.
MovedFrom(c) == [c EXCEPT !.conn = 0, !.path = FALSE, !.secret = "none"]
\* What it makes of its target, whose device_id_ is the one it had.
MovedTo(c, device) == [c EXCEPT !.device = device]

\* Mutant: the source keeps its fd.
MoveConstructSharing(o, p) ==
    /\ ~client[o].alive /\ client[p].alive
    /\ client' = [client EXCEPT ![o] = MovedTo(client[p], NoDevice)]
    /\ UNCHANGED <<env, open, conns, dialled, reg>>
MoveConstruct(o, p) ==
    /\ ~client[o].alive /\ client[p].alive
    /\ client' = [client EXCEPT ![o] = MovedTo(client[p], NoDevice), ![p] = MovedFrom(@)]
    /\ UNCHANGED <<env, open, conns, dialled, reg>>

MoveAssign(o, p) ==
    /\ o # p /\ client[o].alive /\ client[p].alive
    /\ open' = open \ {client[o].conn}
    /\ client' = [client EXCEPT ![o] = MovedTo(client[p], client[o].device), ![p] = MovedFrom(@)]
    /\ UNCHANGED <<env, conns, dialled, reg>>

Close(o) ==
    /\ client[o].alive /\ Becomes(o, [client[o] EXCEPT !.conn = 0])
    /\ UNCHANGED <<env, dialled, reg>>

Destroy(o) ==
    /\ client[o].alive /\ Becomes(o, NoClient)
    /\ UNCHANGED <<env, dialled, reg>>

Register(o) ==
    /\ client[o].conn # 0
    /\ reg' = Registration(client[o], "api")
    /\ UNCHANGED <<env, client, open, conns, dialled>>

Next ==
    \/ \E o \in Objects :
         \/ \E path \in BOOLEAN, secret \in Secrets : Construct(o, path, secret)
         \/ \E secret \in Secrets : Adopt(o, secret)
         \/ Connect(o) \/ ConnectFromEnv(o) \/ Close(o) \/ Destroy(o) \/ Register(o)
         \/ \E id \in Devices : SetDeviceId(o, id)
         \/ \E p \in Objects : MoveConstruct(o, p) \/ MoveAssign(o, p)
         \/ \E u \in Urls :
              \/ \E id \in Devices : ConnectWsDevice(o, u, id)
              \/ \E secret \in Secrets : ConnectWsShared(o, u, secret)
    \/ \E u \in Urls : RunWs(u)

Spec == Init /\ [][Next]_vars

-----------------------------------------------------------------------------
(***************************************************************************)
(* Properties.                                                             *)
(***************************************************************************)
\* Every variable keeps its type; no connection is ever made to port 0.
TypeOK ==
    /\ env \in Environments /\ open \subseteq 1..conns /\ conns \in 0..MaxConns
    /\ \A o \in Objects : client[o].conn \in 0..conns /\ client[o].secret \in Secrets
                          /\ client[o].device \in Devices \cup {NoDevice}
    /\ dialled \in Nat \ {0}

\* Across constructions, moves, reconnections and destructions, every open connection has
\* exactly one owner and every client's connection is open: none is leaked, and none is
\* closed twice or by a client it was moved out of (client.hpp:40).
OneOwner ==
    /\ \A c \in open : Cardinality({o \in Objects : client[o].conn = c}) = 1
    /\ \A o \in Objects : client[o].conn # 0 => client[o].conn \in open

\* run_ws registers as what the environment names, never as something else on a half-set
\* or doubly-set environment (env.hpp:37-41, env.cpp:68-99): as the paired device, under
\* that device's own secret and with its id where the compiler elides the move out of
\* connect_ws_device; or without a device, under the shared secret if there is one.
DeviceIdentity ==
    reg.via = "run_ws" =>
        /\ env.device_secret <=> env.device_id # NoDevice
        /\ reg.secret = "device" <=> env.device_id # NoDevice
        /\ reg.secret = "master" <=> env.jwt_secret
        /\ Elides => reg.device = env.device_id
=============================================================================
