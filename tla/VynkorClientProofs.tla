------------------------ MODULE VynkorClientProofs -------------------------
(***************************************************************************)
(* Proofs about VynkorClient, for every timeout, number of connections and *)
(* of requests, with a secret or without.                                  *)
(***************************************************************************)
EXTENDS VynkorClient, TLAPS

Types == {"register_ack", "publish_ack", "action_response", "action_stream_abort",
          "command_ack", "pong", "error", "event", "raw"}
Frames == [type : Types, req : Nat, nonce : BOOLEAN, mac : Keys]
Todos == [kind : Requests \cup {"register", "notify"}, req : Nat]
Peers == [up : BOOLEAN, secured : BOOLEAN, key : Keys, todo : SUBSET Todos]

TypeInv ==
    /\ TypeOK
    /\ down \in Seq(Frames) /\ peer \in Peers
    /\ returned \subseteq [req : Nat, answers : Nat]

\* A request's number belongs to one place only: to what the kernel has yet to answer, to
\* one frame on its way, or to one answer returned.  Traffic nobody asked for has number 0.
Numbers ==
    /\ call # NoCall => call.req = reqs
    /\ \A t \in peer.todo :
         /\ t.req \in 1..reqs
         /\ \A u \in peer.todo : u.req = t.req => u = t
         /\ \A i \in 1..Len(down) : down[i].req # t.req
         /\ \A r \in returned : r.answers # t.req
    /\ \A i \in 1..Len(down) :
         /\ down[i].req \in 0..reqs
         /\ down[i].req = 0 => down[i].type \in {"event", "raw"}
         /\ \A j \in 1..Len(down) : down[j].req = down[i].req /\ down[i].req # 0 => j = i
         /\ \A r \in returned : r.answers # down[i].req
    /\ \A r \in returned :
         r.answers \in 1..reqs /\ r.answers = r.req

\* Once an ack with a nonce is on its way, the kernel has this connection's key and every
\* frame behind the ack is MACed with it.
SessionKeys ==
    /\ open => conns > 0
    /\ peer.key \in {NoKey, conns}
    /\ \A i \in 1..Len(down) :
         down[i].nonce => /\ peer.key = conns
                          /\ \A j \in (i + 1)..Len(down) : down[j].mac = conns
    /\ open /\ fresh => key \in {NoKey, conns}
    /\ open /\ fresh /\ key # NoKey => /\ peer.key = key
                                       /\ \A i \in 1..Len(down) : down[i].mac = key

IndInv == TypeInv /\ Numbers /\ SessionKeys

-----------------------------------------------------------------------------
(***************************************************************************)
(* Connecting.                                                             *)
(***************************************************************************)
\* The kernel's end of no connection.
LEMMA NoPeerType ==
    NoPeer \in Peers /\ NoPeer.key = NoKey /\ NoPeer.todo = {} /\ NoPeer.up = FALSE
BY BoundAssumption DEF NoPeer, Peers, NoKey, Keys

\* A new connection starts with nothing on its way and without a key at the kernel.
LEMMA NewConnectionKeeps ==
    ASSUME IndInv, ConnectNewClient \/ Connect
    PROVE  IndInv'
<1>1. /\ call = NoCall /\ conns < MaxConns /\ conns' = conns + 1 /\ open' = TRUE /\ down' = <<>>
      /\ UNCHANGED <<call, reqs, returned, regMacs>>
  BY DEF ConnectNewClient, Connect, NewConnection
<1>2. peer' \in Peers /\ peer'.key = NoKey /\ peer'.todo = {}
  <2>1. PICK secured \in BOOLEAN : peer' = [NoPeer EXCEPT !.up = TRUE, !.secured = secured]
    BY DEF ConnectNewClient, Connect, NewConnection
  <2> QED
    BY <2>1, NoPeerType DEF Peers, NoPeer
<1>3. /\ key' \in Keys /\ fresh' \in BOOLEAN
      /\ fresh' => key' = NoKey
  <2>1. key' \in Keys
    BY BoundAssumption DEF ConnectNewClient, Connect, IndInv, TypeInv, TypeOK, NoKey, Keys
  <2>2. CASE ConnectNewClient
    BY <2>1, <2>2 DEF ConnectNewClient
  <2>3. CASE Connect
    BY <2>1, <2>3, Zenon DEF Connect
  <2> QED
    BY <2>2, <2>3
<1>4. TypeInv'
  <2>1. conns' \in 0..MaxConns
    BY <1>1, BoundAssumption DEF IndInv, TypeInv, TypeOK
  <2>2. down' \in Seq(Frames) /\ Len(down') <= LinkCap /\ peer'.key \in Keys
    BY <1>1, <1>2, BoundAssumption DEF NoKey, Keys
  <2>3. TypeOK'
    BY <1>1, <1>2, <1>3, <2>1, <2>2 DEF IndInv, TypeInv, TypeOK
  <2> QED
    BY <1>1, <1>2, <2>2, <2>3 DEF IndInv, TypeInv
<1>5. Numbers'
  BY <1>1, <1>2 DEF IndInv, Numbers
<1>6. SessionKeys'
  <2>1. conns' > 0
    BY <1>1 DEF IndInv, TypeInv, TypeOK
  <2> QED
    BY <1>1, <1>2, <1>3, <2>1 DEF SessionKeys
<1> QED
  BY <1>4, <1>5, <1>6 DEF IndInv

\* Without a socket there is nothing on its way.
LEMMA CloseKeeps ==
    ASSUME IndInv, ConnectFails \/ Close
    PROVE  IndInv'
<1>1. /\ call = NoCall /\ open' = FALSE /\ down' = <<>> /\ peer' = NoPeer
      /\ UNCHANGED <<conns, key, fresh, call, reqs, returned, regMacs>>
  BY DEF ConnectFails, Close
<1>2. peer' \in Peers /\ peer'.key = NoKey /\ peer'.todo = {} /\ peer'.up = FALSE
  BY <1>1, NoPeerType
<1>3. TypeInv'
  <2>1. down' \in Seq(Frames) /\ Len(down') <= LinkCap /\ peer'.key \in Keys
    BY <1>1, <1>2, BoundAssumption DEF NoKey, Keys
  <2>2. TypeOK'
    BY <1>1, <1>2, <2>1 DEF IndInv, TypeInv, TypeOK
  <2> QED
    BY <1>1, <1>2, <2>1, <2>2 DEF IndInv, TypeInv
<1>4. Numbers'
  BY <1>1, <1>2 DEF IndInv, Numbers
<1>5. SessionKeys'
  BY <1>1, <1>2 DEF SessionKeys
<1> QED
  BY <1>3, <1>4, <1>5 DEF IndInv

-----------------------------------------------------------------------------
(***************************************************************************)
(* The kernel.                                                             *)
(***************************************************************************)
\* What the provers need to know about a frame put at the end.
LEMMA AppendFrame ==
    ASSUME NEW s \in Seq(Frames), NEW f \in Frames
    PROVE  /\ Append(s, f) \in Seq(Frames) /\ Len(Append(s, f)) = Len(s) + 1
           /\ \A i \in 1..(Len(s) + 1) :
                \/ i \in 1..Len(s) /\ Append(s, f)[i] = s[i]
                \/ i = Len(s) + 1 /\ Append(s, f)[i] = f
OBVIOUS

\* A frame the kernel puts on its way, from its list (number n) or of its own (number 0).
LEMMA KernelSendsKeeps ==
    ASSUME IndInv, NEW f, KernelSends(f), f \in Frames, f.mac = peer.key,
           peer' \in Peers, peer'.up = peer.up,
           \/ /\ \E t \in peer.todo : t.req = f.req /\ peer'.todo = peer.todo \ {t}
              /\ \/ peer'.key = peer.key /\ ~f.nonce
                 \/ /\ peer.key = NoKey
                    /\ peer'.key = IF f.nonce THEN conns ELSE NoKey
           \/ /\ f.req = 0 /\ ~f.nonce /\ f.type \in {"event", "raw"}
              /\ peer' = peer
    PROVE  IndInv'
<1>1. /\ peer.up /\ Len(down) < LinkCap /\ down' = Append(down, f)
      /\ UNCHANGED <<conns, open, key, fresh, call, reqs, returned, regMacs>>
  BY DEF KernelSends
<1>2. down \in Seq(Frames) /\ Len(down) \in Nat
  BY DEF IndInv, TypeInv
<1>3. /\ down' \in Seq(Frames) /\ Len(down') = Len(down) + 1
      /\ \A i \in 1..Len(down') : \/ i \in 1..Len(down) /\ down'[i] = down[i]
                                  \/ i = Len(down) + 1 /\ down'[i] = f
  BY <1>1, <1>2, AppendFrame
<1>4. open
  BY <1>1 DEF IndInv, TypeInv, TypeOK
<1>5. TypeInv'
  <2>1. Len(down') <= LinkCap /\ peer'.key \in Keys
    BY <1>1, <1>2, <1>3, BoundAssumption DEF Peers
  <2>2. TypeOK'
    BY <1>1, <1>4, <2>1 DEF IndInv, TypeInv, TypeOK
  <2> QED
    BY <1>1, <1>3, <2>2 DEF IndInv, TypeInv
<1>6. Numbers'
  <2>1. /\ peer'.todo \subseteq peer.todo
        /\ \A t \in peer'.todo : t.req # f.req
        /\ f.req \in 0..reqs /\ (f.req = 0 => f.type \in {"event", "raw"})
        /\ f.req # 0 => \A i \in 1..Len(down) : down[i].req # f.req
        /\ \A r \in returned : r.answers # f.req
    <3>1. CASE f.req = 0 /\ f.type \in {"event", "raw"} /\ peer' = peer
      <4>1. reqs \in Nat /\ \A r \in returned : r.req \in Nat
        BY DEF IndInv, TypeInv, TypeOK
      <4> QED
        BY <3>1, <4>1 DEF IndInv, Numbers
    <3>2. ASSUME NEW t \in peer.todo, t.req = f.req, peer'.todo = peer.todo \ {t}
          PROVE  /\ peer'.todo \subseteq peer.todo
                 /\ \A u \in peer'.todo : u.req # f.req
                 /\ f.req \in 0..reqs /\ (f.req = 0 => f.type \in {"event", "raw"})
                 /\ f.req # 0 => \A i \in 1..Len(down) : down[i].req # f.req
                 /\ \A r \in returned : r.answers # f.req
      BY <3>2 DEF IndInv, Numbers
    <3> QED
      BY <3>1, <3>2
  <2>2. \A t \in peer'.todo :
         /\ t.req \in 1..reqs'
         /\ \A u \in peer'.todo : u.req = t.req => u = t
         /\ \A i \in 1..Len(down') : down'[i].req # t.req
         /\ \A r \in returned' : r.answers # t.req
    BY <1>1, <1>3, <2>1 DEF IndInv, Numbers
  <2>3. \A i \in 1..Len(down') :
         /\ down'[i].req \in 0..reqs'
         /\ down'[i].req = 0 => down'[i].type \in {"event", "raw"}
         /\ \A r \in returned' : r.answers # down'[i].req
    BY <1>1, <1>3, <2>1 DEF IndInv, Numbers
  <2>4. \A i, j \in 1..Len(down') : down'[j].req = down'[i].req /\ down'[i].req # 0 => j = i
    BY <1>2, <1>3, <2>1 DEF IndInv, Numbers
  <2>5. /\ call' # NoCall => call'.req = reqs'
        /\ \A r \in returned' :
             r.answers \in 1..reqs' /\ r.answers = r.req
    BY <1>1 DEF IndInv, Numbers
  <2> QED
    BY <2>2, <2>3, <2>4, <2>5 DEF Numbers
<1>7. SessionKeys'
  <2>1. /\ peer'.key \in {NoKey, conns} /\ (peer.key = conns => peer'.key = conns)
        /\ f.nonce => peer'.key = conns
    BY DEF IndInv, SessionKeys
  <2>2. ASSUME NEW i \in 1..Len(down'), down'[i].nonce
        PROVE  /\ peer'.key = conns'
               /\ \A j \in (i + 1)..Len(down') : down'[j].mac = conns'
    <3>1. CASE i \in 1..Len(down) /\ down'[i] = down[i]
      <4>1. peer.key = conns /\ \A j \in (i + 1)..Len(down) : down[j].mac = conns
        BY <2>2, <3>1 DEF IndInv, SessionKeys
      <4> QED
        BY <1>1, <1>2, <1>3, <2>1, <3>1, <4>1
    <3>2. CASE i = Len(down) + 1 /\ down'[i] = f
      BY <1>1, <1>2, <1>3, <2>1, <2>2, <3>2
    <3> QED
      BY <1>3, <3>1, <3>2
  <2>3. ASSUME fresh, key # NoKey
        PROVE  peer'.key = key /\ \A i \in 1..Len(down') : down'[i].mac = key
    <3>1. peer.key = key /\ key = conns /\ \A i \in 1..Len(down) : down[i].mac = key
      BY <1>4, <2>3 DEF IndInv, SessionKeys
    <3> QED
      BY <1>3, <2>1, <3>1
  <2> QED
    BY <1>1, <2>1, <2>2, <2>3 DEF IndInv, SessionKeys
<1> QED
  BY <1>5, <1>6, <1>7 DEF IndInv

\* The kernel's steps.
LEMMA KernelKeeps ==
    ASSUME IndInv, Kernel
    PROVE  IndInv'
<1>0. peer \in Peers /\ peer.key \in Keys /\ peer.todo \subseteq Todos
  BY DEF IndInv, TypeInv, Peers
<1>1. CASE KernelRegisters
  <2>1. PICK t \in peer.todo :
          /\ t.kind = "register" /\ peer.key = NoKey
          /\ KernelSends(Frame("register_ack", t.req, peer.secured))
          /\ peer' = [peer EXCEPT !.todo = @ \ {t},
                                  !.key = IF peer.secured THEN conns ELSE NoKey]
    BY <1>1 DEF KernelRegisters
  <2> DEFINE f == Frame("register_ack", t.req, peer.secured)
  <2>2. /\ f \in Frames /\ f.mac = peer.key /\ f.req = t.req /\ f.nonce = peer.secured
    BY <1>0 DEF Frame, Frames, Types, Todos, Peers
  <2>3. conns \in Keys /\ NoKey \in Keys
    BY BoundAssumption DEF IndInv, TypeInv, TypeOK, Keys, NoKey
  <2>4. /\ peer' \in Peers /\ peer'.up = peer.up /\ peer'.todo = peer.todo \ {t}
        /\ peer'.key = IF peer.secured THEN conns ELSE NoKey
    BY <1>0, <2>1, <2>3 DEF Peers
  <2> HIDE DEF f
  <2>5. KernelSends(f)
    BY <2>1 DEF f
  <2> QED
    BY <2>1, <2>2, <2>4, <2>5, KernelSendsKeeps
<1>2. CASE KernelAnswers
  <2>0. PICK t \in peer.todo : \E type \in AnswerTypes(t.kind) :
          /\ KernelSends(Frame(type, t.req, FALSE))
          /\ peer' = [peer EXCEPT !.todo = @ \ {t}]
    BY <1>2 DEF KernelAnswers
  <2>1. PICK type \in AnswerTypes(t.kind) :
          /\ KernelSends(Frame(type, t.req, FALSE))
          /\ peer' = [peer EXCEPT !.todo = @ \ {t}]
    BY <2>0
  <2> DEFINE f == Frame(type, t.req, FALSE)
  <2>2. type \in Types
    BY <1>0, <2>1 DEF AnswerTypes, Types, Todos, Requests
  <2>3. /\ f \in Frames /\ f.mac = peer.key /\ f.req = t.req /\ ~f.nonce
    BY <1>0, <2>2 DEF Frame, Frames, Todos
  <2>4. /\ peer' \in Peers /\ peer'.up = peer.up /\ peer'.todo = peer.todo \ {t}
        /\ peer'.key = peer.key
    BY <1>0, <2>1 DEF Peers
  <2> HIDE DEF f
  <2>5. KernelSends(f)
    BY <2>1 DEF f
  <2> QED
    BY <2>1, <2>3, <2>4, <2>5, KernelSendsKeeps
<1>3. CASE KernelVolunteers
  <2>1. PICK type \in {"event", "raw"} : KernelSends(Frame(type, 0, FALSE)) /\ UNCHANGED peer
    BY <1>3 DEF KernelVolunteers
  <2> DEFINE f == Frame(type, 0, FALSE)
  <2>2. /\ f \in Frames /\ f.mac = peer.key /\ f.req = 0 /\ ~f.nonce /\ f.type \in {"event", "raw"}
    BY <1>0 DEF Frame, Frames, Types
  <2> HIDE DEF f
  <2>5. KernelSends(f)
    BY <2>1 DEF f
  <2> QED
    BY <1>0, <2>1, <2>2, <2>5, KernelSendsKeeps
<1>4. CASE KernelCloses
  <2>1. /\ peer' \in Peers /\ peer'.up = FALSE /\ peer'.todo = {} /\ peer'.key = peer.key
        /\ UNCHANGED <<conns, open, key, fresh, call, reqs, down, returned, regMacs>>
    BY <1>0, <1>4 DEF KernelCloses, Peers
  <2>2. TypeInv'
    BY <1>0, <2>1 DEF IndInv, TypeInv, TypeOK
  <2>3. Numbers'
    BY <2>1 DEF IndInv, Numbers
  <2>4. SessionKeys'
    BY <2>1 DEF IndInv, SessionKeys
  <2> QED
    BY <2>2, <2>3, <2>4 DEF IndInv
<1> QED
  BY <1>1, <1>2, <1>3, <1>4 DEF Kernel

-----------------------------------------------------------------------------
(***************************************************************************)
(* The calls.                                                              *)
(***************************************************************************)
\* What a send changes: the request numbers grow by one, and the kernel may have one more
\* request to answer.
LEMMA SendKeeps ==
    ASSUME IndInv, NEW kind \in Requests \cup {"register", "notify"},
           open, peer.up, reqs < MaxRequests, reqs' = reqs + 1, Sent(kind, reqs + 1),
           call = NoCall,
           UNCHANGED <<conns, open, key, fresh, down, returned>>,
           regMacs' \subseteq regMacs \cup {[conn |-> conns, mac |-> key]},
           call' = NoCall \/ (/\ kind # "notify"
                             /\ call' = [kind |-> kind, req |-> reqs + 1,
                                         left |-> IF kind \in Deadlined THEN Timeout ELSE 0])
    PROVE  IndInv'
<1>1. peer \in Peers /\ reqs \in Nat /\ conns \in Keys /\ key \in Keys
  BY BoundAssumption DEF IndInv, TypeInv, TypeOK, Keys
<1> DEFINE t == [kind |-> kind, req |-> reqs + 1]
<1>2. t \in Todos /\ t.req = reqs + 1
  BY <1>1 DEF Todos
<1> HIDE DEF t
<1>3. /\ peer' \in Peers /\ peer'.up = peer.up /\ peer'.key = peer.key
      /\ peer'.todo \subseteq peer.todo \cup {t}
  BY <1>1, <1>2 DEF Sent, Peers, t
<1>4. TypeInv'
  <2>1. reqs' \in 0..MaxRequests
    BY <1>1, BoundAssumption
  <2>2. regMacs' \subseteq [conn : Keys, mac : Keys]
    BY <1>1 DEF IndInv, TypeInv, TypeOK
  <2>3. /\ call' \in [kind : Kinds \cup {"none"}, req : 0..MaxRequests, left : 0..Timeout]
        /\ call'.kind \notin Deadlined => call'.left = 0
    BY <2>1, BoundAssumption DEF Kinds, Requests, Deadlined, NoCall
  <2>4. TypeOK'
    BY <1>1, <1>3, <2>1, <2>2, <2>3 DEF IndInv, TypeInv, TypeOK
  <2> QED
    BY <1>3, <2>4 DEF IndInv, TypeInv
<1>5. Numbers'
  <2>1. ASSUME NEW u \in peer'.todo
        PROVE  /\ u.req \in 1..reqs'
               /\ \A v \in peer'.todo : v.req = u.req => v = u
               /\ \A i \in 1..Len(down) : down[i].req # u.req
               /\ \A r \in returned : r.answers # u.req
    <3>1. /\ \A v \in peer.todo : v.req \in 1..reqs
          /\ \A i \in 1..Len(down) : down[i].req \in 0..reqs
      BY DEF IndInv, Numbers
    <3>2. \A r \in returned : r.answers \in 0..reqs
      BY <1>1 DEF IndInv, TypeInv, Numbers
    <3>3. CASE u = t
      BY <1>1, <1>2, <1>3, <3>1, <3>2, <3>3
    <3>4. CASE u \in peer.todo
      BY <1>1, <1>2, <1>3, <3>1, <3>2, <3>4 DEF IndInv, Numbers
    <3> QED
      BY <1>3, <3>3, <3>4
  <2>2. call' # NoCall => call'.req = reqs'
    OBVIOUS
  <2>3. \A i \in 1..Len(down) : down[i].req \in 0..reqs'
    BY <1>1 DEF IndInv, Numbers
  <2>4. \A r \in returned : r.answers \in 1..reqs'
    BY <1>1 DEF IndInv, Numbers, TypeInv
  <2> QED
    BY <2>1, <2>2, <2>3, <2>4 DEF IndInv, Numbers
<1>6. SessionKeys'
  BY <1>3 DEF IndInv, SessionKeys
<1> QED
  BY <1>4, <1>5, <1>6 DEF IndInv

\* What the provers need to know about taking the first frame.
LEMMA TakeFrame ==
    ASSUME NEW s \in Seq(Frames), s # <<>>
    PROVE  /\ Len(s) \in Nat /\ Len(s) > 0 /\ Head(s) = s[1] /\ Head(s) \in Frames
           /\ Tail(s) \in Seq(Frames) /\ Len(Tail(s)) = Len(s) - 1
           /\ \A i \in 1..Len(Tail(s)) : i + 1 \in 1..Len(s) /\ Tail(s)[i] = s[i + 1]
OBVIOUS

\* The first frame is read: it is dropped, refused, or the answer that is returned.
LEMMA ReceiveKeeps ==
    ASSUME IndInv, Receive
    PROVE  IndInv'
<1> DEFINE f == Head(down)
<1>1. /\ down # <<>> /\ down' = Tail(down) /\ call.kind # "none"
      /\ UNCHANGED <<conns, open, fresh, reqs, peer, regMacs>>
  BY DEF Receive, MayRead
<1>2. down \in Seq(Frames)
  BY DEF IndInv, TypeInv
<1>3. /\ Len(down) \in Nat /\ Len(down) > 0 /\ f = down[1] /\ f \in Frames
      /\ down' \in Seq(Frames) /\ Len(down') = Len(down) - 1
      /\ \A i \in 1..Len(down') : i + 1 \in 1..Len(down) /\ down'[i] = down[i + 1]
  BY <1>1, <1>2, TakeFrame
<1>4. call # NoCall /\ open /\ call.req = reqs
  BY <1>1 DEF IndInv, TypeInv, TypeOK, Numbers, NoCall
<1>5. call' \in {call, NoCall}
  BY DEF Receive, Throw, Return
<1>6. \/ key' = key
      \/ f.nonce /\ key' = conns
  BY DEF Receive, Throw, Return, KeyAfter
<1>7. \/ returned' = returned
      \/ /\ call.kind = "action"
         /\ returned' = returned \cup {[req |-> call.req, answers |-> f.req]}
         /\ f.type \in Expected /\ IsTerminal(f)
  BY DEF Receive, Throw, Return
<1> HIDE DEF f
<1>8. TypeInv'
  <2>1. key' \in Keys
    BY <1>6 DEF IndInv, TypeInv, TypeOK, Keys
  <2>2. /\ call' \in [kind : Kinds \cup {"none"}, req : 0..MaxRequests, left : 0..Timeout]
        /\ call'.kind \notin Deadlined => call'.left = 0
    BY <1>5, BoundAssumption DEF IndInv, TypeInv, TypeOK, NoCall
  <2>3. Len(down') <= LinkCap
    BY <1>3, BoundAssumption DEF IndInv, TypeInv, TypeOK
  <2>4. TypeOK'
    BY <1>1, <1>4, <2>1, <2>2, <2>3 DEF IndInv, TypeInv, TypeOK
  <2>5. returned' \subseteq [req : Nat, answers : Nat]
    <3>1. f.req \in Nat /\ call.req \in Nat
      BY <1>3 DEF Frames, IndInv, TypeInv, TypeOK
    <3> QED
      BY <1>7, <3>1 DEF IndInv, TypeInv
  <2> QED
    BY <1>1, <1>3, <2>4, <2>5 DEF IndInv, TypeInv
<1>9. Numbers'
  <2>1. /\ \A t \in peer.todo : t.req # f.req
        /\ \A r \in returned : r.answers # f.req
        /\ f.req \in 0..reqs /\ (f.req = 0 => f.type \in {"event", "raw"})
        /\ f.req # 0 => \A i \in 1..Len(down') : down'[i].req # f.req
    <3>1. 1 \in 1..Len(down)
      BY <1>3
    <3>2. \A i \in 1..Len(down') : i + 1 # 1
      BY <1>3
    <3> QED
      BY <1>3, <3>1, <3>2 DEF IndInv, Numbers
  <2>2. \A r \in returned' : r \in returned
          \/ (r.answers = f.req /\ r.answers # 0 /\ r.answers = r.req)
    <3>1. CASE returned' = returned
      BY <3>1
    <3>2. CASE returned' # returned
      <4>1. f.type = "action_response" /\ f.req = call.req
        BY <1>7, <3>2 DEF Expected, IsTerminal
      <4>2. f.req # 0
        BY <2>1, <4>1
      <4> QED
        BY <1>4, <1>7, <3>2, <4>1, <4>2
    <3> QED
      BY <3>1, <3>2
  <2>4. \A t \in peer'.todo :
         /\ t.req \in 1..reqs'
         /\ \A u \in peer'.todo : u.req = t.req => u = t
         /\ \A i \in 1..Len(down') : down'[i].req # t.req
         /\ \A r \in returned' : r.answers # t.req
    BY <1>1, <1>3, <2>1, <2>2 DEF IndInv, Numbers
  <2>5. \A i \in 1..Len(down') :
         /\ down'[i].req \in 0..reqs'
         /\ down'[i].req = 0 => down'[i].type \in {"event", "raw"}
         /\ \A r \in returned' : r.answers # down'[i].req
    BY <1>1, <1>3, <2>1, <2>2 DEF IndInv, Numbers
  <2>6. \A i, j \in 1..Len(down') : down'[j].req = down'[i].req /\ down'[i].req # 0 => j = i
    <3> SUFFICES ASSUME NEW i \in 1..Len(down'), NEW j \in 1..Len(down'),
                        down'[j].req = down'[i].req, down'[i].req # 0
                 PROVE  j = i
      OBVIOUS
    <3>1. j + 1 = i + 1
      BY <1>3 DEF IndInv, Numbers
    <3> QED
      BY <1>3, <3>1
  <2>7. call' # NoCall => call'.req = reqs'
    BY <1>1, <1>4, <1>5
  <2>8. \A r \in returned' : r.answers \in 1..reqs' /\ r.answers = r.req
    <3>1. reqs \in Nat
      BY DEF IndInv, TypeInv, TypeOK
    <3> QED
      BY <1>1, <2>1, <2>2, <3>1 DEF IndInv, Numbers
  <2> QED
    BY <2>4, <2>5, <2>6, <2>7, <2>8 DEF Numbers
<1>10. SessionKeys'
  <2>1. ASSUME NEW i \in 1..Len(down'), down'[i].nonce
        PROVE  /\ peer'.key = conns'
               /\ \A j \in (i + 1)..Len(down') : down'[j].mac = conns'
    <3>1. peer.key = conns /\ \A j \in (i + 2)..Len(down) : down[j].mac = conns
      BY <1>3, <2>1 DEF IndInv, SessionKeys
    <3>2. \A j \in (i + 1)..Len(down') : j + 1 \in (i + 2)..Len(down) /\ j \in 1..Len(down')
      BY <1>3
    <3> QED
      BY <1>1, <1>3, <3>1, <3>2
  <2>2. ASSUME fresh
        PROVE  /\ key' \in {NoKey, conns}
               /\ key' # NoKey => /\ peer'.key = key'
                                  /\ \A i \in 1..Len(down') : down'[i].mac = key'
    <3>1. CASE key' = key
      BY <1>1, <1>3, <1>4, <2>2, <3>1 DEF IndInv, SessionKeys
    <3>2. CASE f.nonce /\ key' = conns
      <4>1. peer.key = conns /\ \A j \in 2..Len(down) : down[j].mac = conns
        BY <1>3, <3>2 DEF IndInv, SessionKeys
      <4>2. \A i \in 1..Len(down') : i + 1 \in 2..Len(down)
        BY <1>3
      <4> QED
        BY <1>1, <1>3, <3>2, <4>1, <4>2
    <3> QED
      BY <1>6, <3>1, <3>2
  <2> QED
    BY <1>1, <2>1, <2>2 DEF IndInv, SessionKeys
<1> QED
  BY <1>8, <1>9, <1>10 DEF IndInv

\* Steps that end a call, start a receive or let time pass.
LEMMA CallOnlyKeeps ==
    ASSUME IndInv, UNCHANGED <<conns, open, key, fresh, reqs, down, peer, returned, regMacs>>,
           call' \in [kind : Kinds \cup {"none"}, req : 0..MaxRequests, left : 0..Timeout],
           call'.kind \notin Deadlined => call'.left = 0,
           call' # NoCall => open /\ call'.req = reqs
    PROVE  IndInv'
<1>1. TypeInv'
  BY DEF IndInv, TypeInv, TypeOK
<1>2. Numbers'
  BY DEF IndInv, Numbers
<1>3. SessionKeys'
  BY DEF IndInv, SessionKeys
<1> QED
  BY <1>1, <1>2, <1>3 DEF IndInv

\* Those steps.
LEMMA WaitKeeps ==
    ASSUME IndInv,
           \/ ReceiveFails \/ TimesOut \/ Tick
           \/ \E kind \in {"recv", "recv_timeout"} : StartRecv(kind)
    PROVE  IndInv'
<1>1. UNCHANGED <<conns, open, key, fresh, reqs, down, peer, returned, regMacs>>
  BY DEF ReceiveFails, TimesOut, Tick, StartRecv, Begin, Throw
<1>2. CASE ReceiveFails \/ TimesOut
  <2>1. call' = NoCall
    BY <1>2 DEF ReceiveFails, TimesOut, Throw
  <2>2. /\ NoCall \in [kind : Kinds \cup {"none"}, req : 0..MaxRequests, left : 0..Timeout]
        /\ NoCall.left = 0
    BY BoundAssumption DEF NoCall
  <2> QED
    BY <1>1, <2>1, <2>2, CallOnlyKeeps
<1>3. CASE Tick
  <2>1. /\ call \in [kind : Kinds \cup {"none"}, req : 0..MaxRequests, left : 0..Timeout]
        /\ call.left > 0 /\ call.kind \in Deadlined
    BY <1>3 DEF IndInv, TypeInv, TypeOK, Tick
  <2>2. call # NoCall /\ open /\ call.req = reqs
    BY <2>1 DEF IndInv, TypeInv, TypeOK, Numbers, NoCall
  <2>3. /\ call' \in [kind : Kinds \cup {"none"}, req : 0..MaxRequests, left : 0..Timeout]
        /\ call'.kind = call.kind /\ call'.req = call.req
    BY <1>3, <2>1, BoundAssumption DEF Tick
  <2> QED
    BY <1>1, <2>1, <2>2, <2>3, CallOnlyKeeps
<1>4. ASSUME NEW kind \in {"recv", "recv_timeout"}, StartRecv(kind)
      PROVE  IndInv'
  <2>1. /\ call' = [kind |-> kind, req |-> reqs, left |-> IF kind \in Deadlined THEN Timeout ELSE 0]
        /\ open /\ reqs \in 0..MaxRequests
    BY <1>4 DEF StartRecv, Begin, IndInv, TypeInv, TypeOK
  <2>2. /\ call' \in [kind : Kinds \cup {"none"}, req : 0..MaxRequests, left : 0..Timeout]
        /\ call'.kind \notin Deadlined => call'.left = 0
        /\ call'.req = reqs
    BY <2>1, BoundAssumption DEF Kinds, Deadlined
  <2> QED
    BY <1>1, <2>1, <2>2, CallOnlyKeeps
<1> QED
  BY <1>2, <1>3, <1>4

\* Every step keeps the inductive invariant.
LEMMA StepKeeps ==
    ASSUME IndInv, [Next]_vars
    PROVE  IndInv'
<1>1. CASE Register
  <2>1. "register" \in Requests \cup {"register", "notify"} /\ "register" # "notify"
    OBVIOUS
  <2> QED
    BY <1>1, <2>1, SendKeeps DEF Register, Begin
<1>2. ASSUME NEW kind \in Requests, SendRequest(kind)
      PROVE  IndInv'
  <2>1. kind # "notify"
    BY DEF Requests
  <2> QED
    BY <1>2, <2>1, SendKeeps DEF SendRequest, Begin
<1>3. CASE Notify
  BY <1>3, SendKeeps DEF Notify
<1>4. CASE UNCHANGED vars
  BY <1>4 DEF vars, IndInv, TypeInv, TypeOK, Numbers, SessionKeys
<1> QED
  BY <1>1, <1>2, <1>3, <1>4, NewConnectionKeeps, CloseKeeps, KernelKeeps, ReceiveKeeps, WaitKeeps
  DEF Next, Waiting

-----------------------------------------------------------------------------
\* The inductive invariant holds in every reachable state.
THEOREM Invariance == Spec => []IndInv
<1>1. Init => IndInv
  <2> SUFFICES ASSUME Init PROVE IndInv
    OBVIOUS
  <2>1. peer \in Peers /\ peer.key = NoKey /\ peer.todo = {} /\ peer.up = FALSE
    BY NoPeerType DEF Init
  <2>2. /\ NoCall \in [kind : Kinds \cup {"none"}, req : 0..MaxRequests, left : 0..Timeout]
        /\ NoCall.left = 0
    BY BoundAssumption DEF NoCall
  <2>3. TypeInv
    <3>1. open \in BOOLEAN /\ fresh \in BOOLEAN
      BY Zenon DEF Init
    <3>2. conns \in 0..MaxConns /\ key \in Keys /\ peer.key \in Keys /\ reqs \in 0..MaxRequests
      BY <2>1, BoundAssumption DEF Init, Keys, NoKey
    <3>3. down \in Seq(Frames) /\ Len(down) <= LinkCap
      BY BoundAssumption DEF Init
    <3>4. call = NoCall /\ returned = {} /\ regMacs = {}
      BY DEF Init
    <3>5. TypeOK
      BY <2>1, <2>2, <3>1, <3>2, <3>3, <3>4 DEF TypeOK
    <3> QED
      BY <2>1, <3>3, <3>4, <3>5 DEF TypeInv
  <2>4. Numbers /\ SessionKeys
    BY <2>1 DEF Init, Numbers, SessionKeys
  <2> QED
    BY <2>3, <2>4 DEF IndInv
<1> QED
  BY <1>1, StepKeeps, PTL DEF Spec

\* Every variable keeps its type, and a call in progress has a socket.
THEOREM TypeCorrect == Spec => []TypeOK
<1>1. IndInv => TypeOK
  BY DEF IndInv, TypeInv
<1> QED
  BY <1>1, Invariance, PTL

\* send_action returns the answer to its own request.
THEOREM AnswersOwn == Spec => []OwnAnswer
<1>1. IndInv => OwnAnswer
  BY DEF IndInv, TypeInv, Numbers, OwnAnswer
<1> QED
  BY <1>1, Invariance, PTL

\* On a connection made without a left-over key, client and kernel agree on the derived
\* key, and no frame on its way is refused for its MAC.
THEOREM KeysAgree == Spec => []SessionAgrees
<1>1. IndInv => SessionAgrees
  BY DEF IndInv, SessionKeys, SessionAgrees
<1> QED
  BY <1>1, Invariance, PTL
=============================================================================
