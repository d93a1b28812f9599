----------------------- MODULE ThreadedVarlinkProofs ------------------------
(***************************************************************************)
(* Proofs about ThreadedVarlink for any number of clients, calls and       *)
(* interfaces: the socket file follows the server whatever the owner does, *)
(* an owner without liberties leaves nothing that is used after it was     *)
(* destroyed or moved, each closure returns the replies to its own call,   *)
(* which know all interfaces that the client has heard of, and no client   *)
(* waits for a reply that nobody will send.                                *)
(***************************************************************************)
EXTENDS ThreadedVarlink, TLAPS

-----------------------------------------------------------------------------
(* The socket file.                                                        *)

\* The file while the server does not exist yet, and once it is being
\* destroyed.
SocketInv == /\ SocketFile
             /\ owner = "new" => path \in {"free", "foreign"}
             /\ owner = "destroying" => path = "free"

LEMMA SocketStep == SocketInv /\ [Next]_vars => SocketInv'
<1> SUFFICES ASSUME SocketInv, [Next]_vars PROVE SocketInv'
  OBVIOUS
<1> USE DEF SocketInv, SocketFile
<1>1. CASE Server!OwnerStep
  <2>1. CASE Server!Construct
    BY <2>1 DEF Server!Construct, Server!Removed
  <2>2. ASSUME NEW i, Server!AddInterface(i) PROVE SocketInv'
    BY <2>2 DEF Server!AddInterface, Server!ownerVars
  <2>3. ASSUME NEW i, Server!AddMoves(i) PROVE SocketInv'
    BY <2>3 DEF Server!AddMoves, Server!MayAdd
  <2>4. CASE Server!AddPublishes
    BY <2>4 DEF Server!AddPublishes
  <2>5. CASE Server!Stop
    BY <2>5 DEF Server!Stop
  <2>6. CASE Server!Join
    BY <2>6 DEF Server!Join
  <2>7. CASE Server!DestroyServer
    BY <2>7 DEF Server!DestroyServer, Server!Removed
  <2>8. CASE Server!DestroyService
    BY <2>8 DEF Server!DestroyService
  <2>9. CASE Server!DestroyPool
    BY <2>9 DEF Server!DestroyPool
  <2> QED BY <1>1, <2>1, <2>2, <2>3, <2>4, <2>5, <2>6, <2>7, <2>8, <2>9
          DEF Server!OwnerStep
<1>2. ASSUME UNCHANGED <<owner, path>> PROVE SocketInv'
  BY <1>2
<1>3. CASE Server!AcceptStep \/ Server!AcceptFails
  BY <1>2, <1>3 DEF Server!AcceptStep, Server!RunPosted, Server!AcceptCompletes,
     Server!HandleAccept, Server!AcceptFails, Server!ownerVars
<1>4. ASSUME NEW c \in Client, Server!SessionStep(c) \/ Server!Stream(c)
      PROVE  SocketInv'
  BY <1>2, <1>4 DEF Server!SessionStep, Server!Dispatch, Server!Search,
     Server!NotFound, Server!RepliesError, Server!Execute, Server!Stream,
     Server!EndStream, Server!Answers, Server!Replies, Server!ownerVars
<1>5. ASSUME NEW c \in Client, Connect(c) PROVE SocketInv'
  BY <1>2, <1>5 DEF Connect, Server!Connects, Server!ownerVars
<1>6. CASE UNCHANGED serverVars
  BY <1>2, <1>6 DEF serverVars
<1> QED BY <1>1, <1>3, <1>4, <1>5, <1>6 DEF Next, Server!Next, vars

\* The socket file exists while the server does, disappears with it, and a
\* file that was there before is never removed: neither by the acceptor that
\* was moved from, nor by a constructor that failed.
THEOREM SocketFileKept == Spec => []SocketFile
<1>1. Init => SocketInv
  BY DEF Init, Server!Init, SocketInv, SocketFile
<1>2. SocketInv => SocketFile
  BY DEF SocketInv
<1> QED BY <1>1, <1>2, SocketStep, PTL DEF Spec
-----------------------------------------------------------------------------
(* What handlers use.                                                      *)

\* A session is in message_call: it holds positions in the vector's storage.
InCall(c) == session[c] \in {"searching", "found", "missing"}

\* The server is built before anything runs, its members stay until the pool
\* has been stopped and its handlers have returned, and entries move only
\* while nobody is in message_call.
LifeInv ==
    /\ session \in [Client -> Server!Phases]
    /\ ref = [c \in Client |-> ref[c]]
    /\ owner \in {"new", "refused", "up", "adding", "stopping", "joined",
                  "destroying", "destroyed"}
    /\ owner \in {"new", "refused"} =>
          accept = "none" /\ \A c \in Client : session[c] = "none"
    /\ owner \in {"up", "adding", "stopping"} => members = {"ctx", "service", "server"}
    /\ owner \in {"stopping", "joined", "destroying", "destroyed"} => stopped
    /\ owner \notin {"up", "stopping"} => \A c \in Client : ~InCall(c)
    /\ \A c \in Client : InCall(c) => ref[c].storage = storage
    /\ dangling = {}

\* Handlers that start find all members, and so do those that go on.
LEMMA MembersThere ==
  ASSUME LifeInv
  PROVE  /\ ~stopped /\ accept # "none" => members = {"ctx", "service", "server"}
         /\ \A c \in Client : /\ ~stopped /\ session[c] # "none"
                                => members = {"ctx", "service", "server"}
                             /\ InCall(c) => members = {"ctx", "service", "server"}
BY DEF LifeInv, InCall

LEMMA NobodyDispatching ==
  Server!Dispatching = {} <=> \A c \in Client : ~InCall(c)
BY DEF Server!Dispatching, InCall

\* The owner's steps.
LEMMA OwnerKeepsLife ==
  ASSUME OwnerMay = {}, LifeInv, Server!OwnerStep
  PROVE  LifeInv'
<1> USE DEF LifeInv, InCall
<1>1. CASE Server!Construct
  BY <1>1 DEF Server!Construct, Server!sessionVars
<1>2. ASSUME NEW i, Server!AddInterface(i) PROVE LifeInv'
  BY <1>2 DEF Server!AddInterface, Server!ownerVars, Server!acceptVars,
     Server!sessionVars
<1>3. ASSUME NEW i, Server!AddMoves(i) PROVE LifeInv'
  <2>1. owner = "up" /\ \A c \in Client : ~InCall(c)
    BY <1>3, NobodyDispatching DEF Server!AddMoves, Server!MayAdd
  <2> QED BY <1>3, <2>1 DEF Server!AddMoves, Server!acceptVars, Server!sessionVars
<1>4. CASE Server!AddPublishes
  BY <1>4 DEF Server!AddPublishes, Server!acceptVars, Server!sessionVars
<1>5. CASE Server!Stop
  BY <1>5 DEF Server!Stop, Server!acceptVars, Server!registryVars, Server!sessionVars
<1>6. CASE Server!Join
  BY <1>6, NobodyDispatching DEF Server!Join, Server!acceptVars,
     Server!registryVars, Server!sessionVars
<1>7. CASE Server!DestroyServer
  BY <1>7 DEF Server!DestroyServer, Server!registryVars, Server!sessionVars
<1>8. CASE Server!DestroyService
  BY <1>8 DEF Server!DestroyService, Server!acceptVars, Server!registryVars,
     Server!sessionVars
<1>9. CASE Server!DestroyPool
  BY <1>9 DEF Server!DestroyPool, Server!registryVars, Server!Phases
<1> QED BY <1>1, <1>2, <1>3, <1>4, <1>5, <1>6, <1>7, <1>8, <1>9
        DEF Server!OwnerStep

\* The steps of the accept loop.
LEMMA AcceptKeepsLife ==
  ASSUME LifeInv, Server!AcceptStep \/ Server!AcceptFails
  PROVE  LifeInv'
<1> USE DEF LifeInv, InCall
<1>1. CASE Server!RunPosted
  BY <1>1, MembersThere DEF Server!RunPosted, Server!Uses, Server!ownerVars,
     Server!registryVars, Server!sessionVars
<1>2. CASE Server!AcceptCompletes \/ Server!AcceptFails
  BY <1>2 DEF Server!AcceptCompletes, Server!AcceptFails, Server!ownerVars,
     Server!registryVars, Server!sessionVars
<1>3. ASSUME NEW c \in Client, Server!HandleAccept(c) PROVE LifeInv'
  <2>1. accept # "none"
    BY <1>3, ClientAssumption DEF Server!HandleAccept
  <2>2. UNCHANGED <<owner, members, stopped, storage, ref>>
    BY <1>3 DEF Server!HandleAccept, Server!ownerVars, Server!registryVars
  <2>3. session' = [session EXCEPT ![c] = "reading"] /\ dangling' = {}
    BY <1>3, <2>1, MembersThere DEF Server!HandleAccept, Server!Uses
  <2> QED BY <1>3, <2>1, <2>2, <2>3 DEF Server!HandleAccept, Server!Phases
<1> QED BY <1>1, <1>2, <1>3 DEF Server!AcceptStep

\* What a step of a session that is not in message_call afterwards keeps.
LEMMA SessionLeavesCall ==
  ASSUME LifeInv, NEW c \in Client, session[c] # "none", dangling' = {},
         session'[c] \in {"reading", "streaming"},
         session' = [session EXCEPT ![c] = session'[c]],
         ref' = [ref EXCEPT ![c] = Server!NoRef],
         UNCHANGED <<owner, members, stopped, accept, storage>>
  PROVE  LifeInv'
BY DEF LifeInv, InCall, Server!Phases

LEMMA SessionKeepsLife ==
  ASSUME OwnerMay = {}, LifeInv, NEW c \in Client,
         Server!SessionStep(c) \/ Server!Stream(c)
  PROVE  LifeInv'
<1>1. CASE Server!Dispatch(c)
  <2>1. owner = "up"
    BY <1>1 DEF Server!Dispatch, LifeInv
  <2>2. dangling' = {}
    BY <1>1, <2>1, MembersThere
       DEF Server!Dispatch, Server!Uses, Server!Published, LifeInv
  <2>3. ref' = [ref EXCEPT ![c] = [storage |-> storage, len |-> Len(interfaces)]]
    BY <1>1, <2>1 DEF Server!Dispatch, Server!Published
  <2>4. session' = [session EXCEPT ![c] = "searching"]
    BY <1>1 DEF Server!Dispatch
  <2>5. UNCHANGED <<owner, members, stopped, accept, storage>>
    BY <1>1 DEF Server!Dispatch, Server!ownerVars, Server!acceptVars,
       Server!registryVars
  <2> QED BY <2>1, <2>2, <2>3, <2>4, <2>5 DEF LifeInv, InCall, Server!Phases
<1>2. CASE Server!Search(c)
  <2>1. InCall(c) /\ session'[c] \in {"found", "missing"}
    BY <1>2 DEF Server!Search, InCall, LifeInv
  <2>2. dangling' = {}
    BY <1>2, <2>1, MembersThere DEF Server!Search, Server!Uses, LifeInv
  <2>3. session' = [session EXCEPT ![c] = session'[c]]
    BY <1>2 DEF Server!Search, LifeInv
  <2>4. UNCHANGED <<owner, members, stopped, accept, storage, ref>>
    BY <1>2 DEF Server!Search, Server!ownerVars, Server!acceptVars,
       Server!registryVars
  <2> QED BY <2>1, <2>2, <2>3, <2>4 DEF LifeInv, InCall, Server!Phases
<1>3. ASSUME NEW continues, NEW error, NEW known,
             Server!Replies(c, continues, error, known),
             session[c] # "none", dangling' = {}
      PROVE  LifeInv'
  BY <1>3, SessionLeavesCall DEF Server!Replies, Server!ownerVars,
     Server!acceptVars, Server!registryVars, LifeInv
<1>4. ASSUME NEW continues, NEW known, Server!Answers(c, continues, known),
             session[c] # "none", dangling' = {}
      PROVE  LifeInv'
  <2>1. CASE Server!Current(c).mode = "oneway"
    BY <1>4, <2>1, SessionLeavesCall DEF Server!Answers, Server!ownerVars,
       Server!acceptVars, Server!registryVars, LifeInv
  <2>2. CASE Server!Current(c).mode # "oneway"
    BY <1>3, <1>4, <2>2 DEF Server!Answers
  <2> QED BY <2>1, <2>2
<1>5. CASE Server!NotFound(c)
  <2>1. session[c] # "none" /\ dangling' = {}
    <3>1. InCall(c) /\ Server!Uses({"service"}, {})
      BY <1>5 DEF Server!NotFound, InCall
    <3>2. members = {"ctx", "service", "server"}
      BY <3>1, MembersThere DEF LifeInv
    <3> QED BY <3>1, <3>2 DEF Server!Uses, InCall
  <2> QED BY <1>3, <1>5, <2>1 DEF Server!NotFound, Server!RepliesError
<1>6. CASE Server!Execute(c)
  <2>1. session[c] # "none" /\ dangling' = {}
    <3>1. InCall(c) /\ Server!Uses({"service"}, {ref[c].storage})
      BY <1>6 DEF Server!Execute, InCall
    <3>2. members = {"ctx", "service", "server"} /\ ref[c].storage = storage
      BY <3>1, MembersThere DEF LifeInv
    <3> QED BY <3>1, <3>2 DEF Server!Uses, InCall
  <2> QED BY <1>3, <1>4, <1>6, <2>1 DEF Server!Execute, Server!RepliesError
<1>7. CASE Server!Stream(c) \/ Server!EndStream(c)
  <2>1. session[c] # "none" /\ dangling' = {}
    <3>1. ~stopped /\ session[c] = "streaming" /\ Server!Uses({"service"}, {})
      BY <1>7 DEF Server!Stream, Server!EndStream
    <3>2. session[c] # "none"
      BY <3>1
    <3>3. members = {"ctx", "service", "server"}
      BY <3>1, <3>2, MembersThere DEF LifeInv
    <3> QED BY <3>1, <3>2, <3>3 DEF Server!Uses
  <2> QED BY <1>4, <1>7, <2>1 DEF Server!Stream, Server!EndStream
<1> QED BY <1>1, <1>2, <1>5, <1>6, <1>7 DEF Server!SessionStep

LEMMA LifeStep ==
  ASSUME OwnerMay = {}
  PROVE  LifeInv /\ [Next]_vars => LifeInv'
<1> SUFFICES ASSUME LifeInv, [Next]_vars PROVE LifeInv'
  OBVIOUS
<1>1. CASE Server!Next
  BY <1>1, OwnerKeepsLife, AcceptKeepsLife, SessionKeepsLife DEF Server!Next
<1>2. ASSUME UNCHANGED <<session, ref, owner, accept, members, stopped, storage,
                         dangling>>
      PROVE  LifeInv'
  BY <1>2 DEF LifeInv, InCall
<1>3. ASSUME NEW c \in Client, Connect(c) PROVE LifeInv'
  BY <1>2, <1>3 DEF Connect, Server!Connects, Server!ownerVars,
     Server!registryVars, Server!sessionVars
<1>4. CASE UNCHANGED serverVars
  BY <1>2, <1>4 DEF serverVars
<1> QED BY <1>1, <1>3, <1>4 DEF Next, vars

\* With an owner who adds interfaces while no request is handled, and stops
\* and joins the pool before the server is destroyed, no handler of any
\* connection uses a member or an entry that is gone.
THEOREM NothingDangles ==
  ASSUME OwnerMay = {}
  PROVE  Spec => []NoDanglingAccess
<1>1. Init => LifeInv
  BY DEF Init, Server!Init, LifeInv, InCall, Server!Phases
<1>2. LifeInv => NoDanglingAccess
  BY DEF LifeInv, NoDanglingAccess
<1>3. LifeInv /\ [Next]_vars => LifeInv'
  BY LifeStep
<1> QED BY <1>1, <1>2, <1>3, PTL DEF Spec
-----------------------------------------------------------------------------
(* Types, and what they rest on.                                           *)

CallRecord == [request : Clients!Request,
               mode : {r.mode : r \in Clients!Request} \cup {"oneway"},
               given : Seq(Server!Reply)]

WireTypes == /\ up \in [Client -> Seq(Clients!Request)]
             /\ down \in [Client -> Seq(Server!Reply)]
             /\ gone \subseteq Client

OwnerTypes ==
    /\ owner \in {"new", "refused", "up", "adding", "stopping", "joined",
                  "destroying", "destroyed"}
    /\ members \subseteq {"ctx", "service", "server"}
    /\ path \in {"free", "foreign", "ours"}

AcceptTypes == /\ accept \in {"none", "posted", "pending", "failed"} \cup Client
               /\ backlog \in Seq(Client)

RegistryTypes ==
    /\ interfaces \in Seq(Server!Name) /\ IsInjective(interfaces)
    /\ capacity \in Nat /\ Len(interfaces) <= capacity
    /\ adding \in Server!Name

SessionTypes == /\ session \in [Client -> Server!Phases]
                /\ ref = [c \in Client |-> ref[c]]
                /\ handled \in [Client -> Nat] /\ sent \in [Client -> Nat]

CallTypes == /\ broken \subseteq connected /\ connected \subseteq Client
             /\ calls \in [Client -> Seq(CallRecord)]
             /\ \A c \in Client : \A k \in 1 .. Len(calls[c]) :
                   calls[c][k].mode \in {calls[c][k].request.mode, "oneway"}
             /\ waiting \in [Client -> Nat] /\ taken \in [Client -> Nat]
             /\ \A c \in Client : /\ waiting[c] <= Len(calls[c])
                                  /\ taken[c] <= Len(down[c])

Types == /\ WireTypes /\ OwnerTypes /\ AcceptTypes /\ RegistryTypes
         /\ SessionTypes /\ CallTypes

\* The service has its own interface first, from its construction on.
RegistryInv ==
    IF owner \in {"new", "refused"}
      THEN interfaces = <<>> /\ accept = "none"
      ELSE /\ interfaces # <<>> /\ interfaces[1] = Server!Std
           /\ owner = "adding" => /\ adding \notin Range(interfaces)
                                  /\ Len(interfaces) = capacity

\* A connection is in the backlog, or accepted, or has a session, and a closure
\* receives only from one that was made.
AdmissionInv ==
    /\ IsInjective(backlog)
    /\ \A c \in Client :
          /\ c \in Range(backlog) => c \in connected /\ session[c] = "none" /\ accept # c
          /\ accept = c => c \in connected /\ session[c] = "none"
          /\ session[c] # "none" => c \in connected /\ owner \notin {"new", "refused"}
          /\ waiting[c] # 0 => c \in connected

\* The reply that comes after another on a connection.
Follows(before, reply) ==
    IF before.continues THEN reply.req = before.req /\ reply.n = before.n + 1
                        ELSE reply.req > before.req /\ reply.n = 1

InOrder(replies) ==
    /\ replies # <<>> => replies[1].n = 1
    /\ \A i \in 1 .. Len(replies) - 1 : Follows(replies[i], replies[i + 1])

\* What has been replied on a connection: it was true when it was written, and
\* an interface that was known is not missed by a later request.
ReplyInv(c) ==
    /\ InOrder(down[c])
    /\ \A i \in 1 .. Len(down[c]) :
          /\ down[c][i].req \in 1 .. handled[c]
          /\ down[c][i].known \subseteq Range(interfaces)
    /\ \A i, j \in 1 .. Len(down[c]) :
          down[c][i].req < down[c][j].req /\ down[c][j].error
            => up[c][down[c][j].req].of \notin down[c][i].known

\* The entries that a session in message_call goes through.
Seen(c) == {interfaces[k] : k \in 1 .. ref[c].len}

\* The last reply ends its call.
Ended(c) == down[c] # <<>> => ~down[c][Len(down[c])].continues

\* A session in message_call has not replied yet, and goes through all that
\* its client was told of; one that goes on from a timer has found it.
PhaseInv(c) ==
    /\ handled[c] <= Len(up[c])
    /\ session[c] = "none" /\ ~stopped => down[c] = <<>> /\ sent[c] = 0
    /\ session[c] = "reading" => sent[c] = 0 /\ Ended(c)
    /\ sent[c] <= MaxReplies
    /\ InCall(c) =>
          /\ handled[c] > 0 /\ sent[c] = 0 /\ Ended(c)
          /\ ref[c].len \in 1 .. Len(interfaces)
          /\ \A i \in 1 .. Len(down[c]) : /\ down[c][i].req < handled[c]
                                         /\ down[c][i].known \subseteq Seen(c)
    /\ session[c] = "missing" => Server!Target(Server!Current(c)) \notin Seen(c)
    /\ session[c] = "streaming" =>
          /\ handled[c] > 0 /\ Server!Current(c).mode = "more"
          /\ Server!Current(c).of \in Range(interfaces)
          /\ down[c] # <<>>
          /\ LET last == down[c][Len(down[c])]
             IN  last.continues /\ last.req = handled[c] /\ last.n = sent[c]
          /\ \A i \in 1 .. Len(down[c]) :
                down[c][i].req = handled[c] => down[c][i].continues

SessionInv(c) == ReplyInv(c) /\ PhaseInv(c)

ServerInv == /\ Types /\ RegistryInv /\ AdmissionInv
             /\ \A c \in Client : SessionInv(c)

\* A sequence to which nothing or something is appended.
Extends(s, t) == Len(s) <= Len(t) /\ \A k \in 1 .. Len(s) : t[k] = s[k]

LEMMA ExtendsAppend ==
  ASSUME NEW S, NEW s \in Seq(S), NEW e \in S
  PROVE  /\ Append(s, e) \in Seq(S) /\ Extends(s, Append(s, e))
         /\ Len(Append(s, e)) = Len(s) + 1
         /\ Append(s, e)[Len(s) + 1] = e
         /\ Range(Append(s, e)) = Range(s) \cup {e}
<1>1. /\ Append(s, e) \in Seq(S) /\ Len(Append(s, e)) = Len(s) + 1
      /\ \A k \in 1 .. Len(s) : Append(s, e)[k] = s[k]
      /\ Append(s, e)[Len(s) + 1] = e
  OBVIOUS
<1>2. Len(s) \in Nat /\ DOMAIN s = 1 .. Len(s) /\ DOMAIN Append(s, e) = 1 .. Len(s) + 1
  BY <1>1
<1>3. Range(Append(s, e)) \subseteq Range(s) \cup {e}
  BY <1>1, <1>2 DEF Range
<1>4. Range(s) \cup {e} \subseteq Range(Append(s, e))
  BY <1>1, <1>2 DEF Range
<1> QED BY <1>1, <1>2, <1>3, <1>4 DEF Extends

LEMMA ExtendsItself ==
  ASSUME NEW S, NEW s \in Seq(S)
  PROVE  Extends(s, s)
BY DEF Extends

LEMMA ExtendsRange ==
  ASSUME NEW S, NEW s \in Seq(S), NEW t \in Seq(S), Extends(s, t)
  PROVE  Range(s) \subseteq Range(t)
<1>1. DOMAIN s = 1 .. Len(s) /\ DOMAIN t = 1 .. Len(t) /\ Len(s) \in Nat /\ Len(t) \in Nat
  OBVIOUS
<1> QED BY <1>1 DEF Extends, Range

\* A session is untouched by what others do: by a registry that grows, by
\* requests that arrive, and by the end of the pool.
LEMMA SessionFrame ==
  ASSUME Types, Types', NEW c \in Client, SessionInv(c),
         Extends(interfaces, interfaces'), Extends(up[c], up'[c]),
         UNCHANGED <<down[c], handled[c], sent[c], ref[c]>>,
         session'[c] \in {session[c], "none"},
         ~stopped' => ~stopped /\ session'[c] = session[c]
  PROVE  SessionInv(c)'
<1>1. Range(interfaces) \subseteq Range(interfaces')
  BY ExtendsRange DEF Types, RegistryTypes
<1>2. /\ Len(interfaces) \in Nat /\ Len(interfaces') \in Nat
      /\ handled[c] \in Nat /\ Len(up[c]) \in Nat /\ Len(up'[c]) \in Nat
      /\ Len(down[c]) \in Nat
  BY DEF Types, RegistryTypes, SessionTypes, WireTypes
<1>3. handled[c] <= Len(up[c]) /\ handled[c] <= Len(up'[c])
  BY <1>2 DEF SessionInv, PhaseInv, Extends
<1>4. \A k \in 1 .. handled[c] : up'[c][k] = up[c][k]
  BY <1>2, <1>3 DEF Extends
<1>5. ReplyInv(c)'
  BY <1>1, <1>4 DEF SessionInv, ReplyInv
<1>6. ASSUME InCall(c)' PROVE InCall(c) /\ session'[c] = session[c] /\ Seen(c)' = Seen(c)
  <2>1. InCall(c) /\ session'[c] = session[c]
    BY <1>6 DEF InCall
  <2>2. ref[c].len \in 1 .. Len(interfaces)
    BY <2>1 DEF SessionInv, PhaseInv
  <2>3. \A k \in 1 .. ref[c].len : interfaces'[k] = interfaces[k]
    BY <1>2, <2>2 DEF Extends
  <2> QED BY <2>1, <2>3 DEF Seen
<1>7. handled[c] > 0 => Server!Current(c)' = Server!Current(c)
  BY <1>2, <1>4 DEF Server!Current
<1>8. PhaseInv(c)'
  <2>1. /\ handled'[c] <= Len(up'[c]) /\ sent'[c] <= MaxReplies
        /\ session'[c] = "none" /\ ~stopped' => down'[c] = <<>> /\ sent'[c] = 0
    BY <1>3 DEF SessionInv, PhaseInv
  <2>2. session'[c] = "reading" => sent'[c] = 0 /\ Ended(c)'
    BY DEF SessionInv, PhaseInv, Ended
  <2>3. ASSUME InCall(c)'
        PROVE  /\ handled'[c] > 0 /\ sent'[c] = 0 /\ Ended(c)'
               /\ ref'[c].len \in 1 .. Len(interfaces')
               /\ \A i \in 1 .. Len(down'[c]) : /\ down'[c][i].req < handled'[c]
                                               /\ down'[c][i].known \subseteq Seen(c)'
    BY <1>2, <1>6, <2>3 DEF SessionInv, PhaseInv, Extends, Ended
  <2>4. session'[c] = "missing" => Server!Target(Server!Current(c))' \notin Seen(c)'
    <3> HAVE session'[c] = "missing"
    <3>1. session[c] = "missing" /\ InCall(c) /\ Seen(c)' = Seen(c)
      BY <1>6 DEF InCall
    <3>2. Server!Target(Server!Current(c))' = Server!Target(Server!Current(c))
      BY <1>7, <3>1 DEF Server!Target, SessionInv, PhaseInv
    <3> QED BY <3>1, <3>2 DEF SessionInv, PhaseInv
  <2>5. session'[c] = "streaming" =>
          /\ handled'[c] > 0 /\ Server!Current(c)'.mode = "more"
          /\ Server!Current(c)'.of \in Range(interfaces')
          /\ down'[c] # <<>>
          /\ LET last == down'[c][Len(down'[c])]
             IN  last.continues /\ last.req = handled'[c] /\ last.n = sent'[c]
          /\ \A i \in 1 .. Len(down'[c]) :
                down'[c][i].req = handled'[c] => down'[c][i].continues
    BY <1>1, <1>7 DEF SessionInv, PhaseInv
  <2> QED BY <2>1, <2>2, <2>3, <2>4, <2>5 DEF PhaseInv
<1> QED BY <1>5, <1>8 DEF SessionInv

LEMMA NewEntry ==
  ASSUME NEW S, NEW s \in Seq(S), NEW e \in S, IsInjective(s), e \notin Range(s)
  PROVE  IsInjective(Append(s, e))
<1>1. /\ DOMAIN s = 1 .. Len(s) /\ Len(s) \in Nat
      /\ DOMAIN Append(s, e) = 1 .. Len(s) + 1
      /\ \A k \in 1 .. Len(s) : Append(s, e)[k] = s[k] /\ s[k] # e
      /\ Append(s, e)[Len(s) + 1] = e
  BY DEF Range
<1> QED BY <1>1 DEF IsInjective

LEMMA WithoutFirst ==
  ASSUME NEW S, NEW s \in Seq(S), s # <<>>, IsInjective(s)
  PROVE  /\ Head(s) \in S /\ Tail(s) \in Seq(S) /\ IsInjective(Tail(s))
         /\ Head(s) \in Range(s) /\ Range(Tail(s)) = Range(s) \ {Head(s)}
<1>1. /\ DOMAIN s = 1 .. Len(s) /\ Len(s) \in Nat \ {0}
      /\ Head(s) = s[1] /\ Head(s) \in S
      /\ Tail(s) \in Seq(S) /\ Len(Tail(s)) = Len(s) - 1
      /\ DOMAIN Tail(s) = 1 .. Len(s) - 1
      /\ \A k \in 1 .. Len(s) - 1 : Tail(s)[k] = s[k + 1]
  OBVIOUS
<1>2. \A k \in 2 .. Len(s) : k - 1 \in 1 .. Len(s) - 1 /\ s[k] = Tail(s)[k - 1]
  BY <1>1
<1>3. IsInjective(Tail(s))
  BY <1>1 DEF IsInjective
<1>4. Range(Tail(s)) \subseteq Range(s) \ {Head(s)}
  BY <1>1 DEF IsInjective, Range
<1>5. Range(s) \ {Head(s)} \subseteq Range(Tail(s))
  <2> SUFFICES ASSUME NEW k \in 1 .. Len(s), s[k] # s[1] PROVE s[k] \in Range(Tail(s))
    BY <1>1 DEF Range
  <2>1. k \in 2 .. Len(s)
    BY <1>1
  <2>2. k - 1 \in DOMAIN Tail(s) /\ s[k] = Tail(s)[k - 1]
    BY <1>1, <1>2, <2>1
  <2>3. Tail(s)[k - 1] \in Range(Tail(s))
    BY <2>2, Zenon DEF Range
  <2> QED BY <2>2, <2>3, Zenon
<1>6. s[1] \in Range(s)
  BY <1>1 DEF Range
<1> QED BY <1>1, <1>3, <1>4, <1>5, <1>6

\* Every session is as it was, or destroyed with the pool.
LEMMA SessionsFrame ==
  ASSUME ServerInv, Types', Extends(interfaces, interfaces'),
         UNCHANGED <<up, down, handled, sent, ref>>,
         ~stopped' => ~stopped /\ session' = session,
         session' \in {session, [c \in Client |-> "none"]}
  PROVE  \A c \in Client : SessionInv(c)'
<1> TAKE c \in Client
<1>1. Extends(up[c], up'[c])
  BY ExtendsItself DEF ServerInv, Types, WireTypes
<1> QED BY <1>1, SessionFrame DEF ServerInv

\* The owner's steps.
LEMMA OwnerKeepsServer ==
  ASSUME ServerInv, Server!OwnerStep, UNCHANGED clientVars
  PROVE  ServerInv'
<1>1. Extends(interfaces, interfaces)
  BY ExtendsItself DEF ServerInv, Types, RegistryTypes
<1>2. ASSUME UNCHANGED <<up, down, gone, interfaces, capacity, handled, sent, ref,
                         session, accept, backlog>>,
             OwnerTypes', adding' \in Server!Name, ~stopped' => ~stopped,
             owner' \in {"new", "refused"} <=> owner \in {"new", "refused"},
             owner' = "adding" => /\ adding' \notin Range(interfaces)
                                  /\ Len(interfaces) = capacity
      PROVE  ServerInv'
  <2>1. Types'
    BY <1>2 DEF ServerInv, Types, WireTypes, AcceptTypes, RegistryTypes,
       SessionTypes, CallTypes, clientVars
  <2>2. RegistryInv' /\ AdmissionInv'
    BY <1>2 DEF ServerInv, RegistryInv, AdmissionInv, clientVars
  <2>3. \A c \in Client : SessionInv(c)'
    BY <1>1, <1>2, <2>1, SessionsFrame
  <2> QED BY <2>1, <2>2, <2>3 DEF ServerInv
<1>3. ASSUME NEW i \in Server!Name, i \notin Range(interfaces),
             interfaces' = Append(interfaces, i), capacity' \in Nat,
             Len(interfaces) < capacity', adding' \in Server!Name,
             owner \notin {"new", "refused"}, owner' \notin {"new", "refused", "adding"},
             OwnerTypes',
             UNCHANGED <<up, down, gone, stopped, handled, sent, ref, session, accept,
                         backlog>>
      PROVE  ServerInv'
  <2>1. /\ interfaces' \in Seq(Server!Name) /\ Extends(interfaces, interfaces')
        /\ Len(interfaces') = Len(interfaces) + 1 /\ IsInjective(interfaces')
    BY <1>3, ExtendsAppend, NewEntry DEF ServerInv, Types, RegistryTypes
  <2>2. Len(interfaces) \in Nat /\ (interfaces # <<>> => Len(interfaces) > 0)
    BY DEF ServerInv, Types, RegistryTypes
  <2>3. RegistryTypes'
    BY <1>3, <2>1, <2>2 DEF RegistryTypes
  <2>4. Types'
    BY <1>3, <2>3 DEF ServerInv, Types, WireTypes, AcceptTypes, SessionTypes,
       CallTypes, clientVars
  <2>5. RegistryInv'
    BY <1>3, <2>1, <2>2 DEF ServerInv, RegistryInv, Extends
  <2>6. AdmissionInv'
    BY <1>3 DEF ServerInv, AdmissionInv, clientVars
  <2>7. \A c \in Client : SessionInv(c)'
    BY <1>3, <2>1, <2>4, SessionsFrame
  <2> QED BY <2>4, <2>5, <2>6, <2>7 DEF ServerInv
<1>4. CASE Server!Construct
  <2>1. CASE owner' = "refused"
    <3>1. UNCHANGED <<members, path, accept, interfaces, capacity>>
      BY <1>4, <2>1 DEF Server!Construct
    <3> QED BY <1>2, <1>4, <2>1, <3>1
            DEF Server!Construct, ServerInv, Types, OwnerTypes, RegistryTypes,
                Server!sessionVars
  <2>2. CASE owner' = "up"
    <3>1. /\ interfaces = <<>> /\ interfaces' = <<Server!Std>> /\ accept' = "posted"
          /\ capacity' = 1
      BY <1>4, <2>2 DEF Server!Construct, ServerInv, RegistryInv
    <3>2. /\ Extends(interfaces, interfaces') /\ IsInjective(interfaces')
          /\ interfaces' \in Seq(Server!Name) /\ interfaces' # <<>>
          /\ interfaces'[1] = Server!Std /\ Len(interfaces') = 1
      BY <3>1 DEF Extends, IsInjective, Server!Name
    <3>3. OwnerTypes'
      BY <1>4, <2>2 DEF Server!Construct, OwnerTypes, Server!Removed
    <3>4. UNCHANGED <<up, down, gone, stopped, backlog, adding, session, ref, handled,
                      sent>>
      BY <1>4 DEF Server!Construct, Server!sessionVars
    <3>5. Types'
      BY <3>1, <3>2, <3>3, <3>4 DEF ServerInv, Types, WireTypes, AcceptTypes,
         RegistryTypes, SessionTypes, CallTypes, clientVars
    <3>6. RegistryInv' /\ AdmissionInv'
      BY <2>2, <3>1, <3>2, <3>4, ClientAssumption
         DEF ServerInv, RegistryInv, AdmissionInv, clientVars
    <3>7. \A c \in Client : SessionInv(c)'
      BY <3>2, <3>4, <3>5, SessionsFrame
    <3> QED BY <3>5, <3>6, <3>7 DEF ServerInv
  <2> QED BY <1>4, <2>1, <2>2 DEF Server!Construct
<1>5. ASSUME NEW i \in Range(Interface), Server!AddInterface(i) PROVE ServerInv'
  <2>1. /\ owner = "up" /\ owner' = "up" /\ i \notin Range(interfaces) /\ i \in Server!Name
        /\ interfaces' = Append(interfaces, i) /\ Len(interfaces) < capacity
        /\ capacity' = capacity /\ adding' = adding /\ members' = members /\ path' = path
    BY <1>5 DEF Server!AddInterface, Server!MayAdd, Server!Name, Server!Range, Range,
       Server!ownerVars
  <2> QED BY <1>3, <1>5, <2>1
          DEF Server!AddInterface, Server!ownerVars, Server!acceptVars,
              Server!sessionVars, ServerInv, Types, OwnerTypes, RegistryTypes
<1>6. ASSUME NEW i \in Range(Interface), Server!AddMoves(i) PROVE ServerInv'
  BY <1>2, <1>6 DEF Server!AddMoves, Server!MayAdd, Server!Name, Server!Range, Range,
     Server!acceptVars, Server!sessionVars, ServerInv, Types, OwnerTypes
<1>7. CASE Server!AddPublishes
  <2>1. /\ adding \in Server!Name /\ adding \notin Range(interfaces)
        /\ interfaces # <<>> /\ Len(interfaces) = capacity
        /\ capacity' = 2 * capacity /\ adding' = Server!Std
    BY <1>7 DEF Server!AddPublishes, ServerInv, Types, RegistryTypes, RegistryInv
  <2>2. capacity' \in Nat /\ Len(interfaces) < capacity'
    BY <2>1 DEF ServerInv, Types, RegistryTypes
  <2>3. OwnerTypes'
    BY <1>7 DEF Server!AddPublishes, ServerInv, Types, OwnerTypes
  <2> QED BY <1>3, <1>7, <2>1, <2>2, <2>3
          DEF Server!AddPublishes, Server!acceptVars, Server!sessionVars, Server!Name
<1>8. CASE Server!Stop \/ Server!Join
  BY <1>2, <1>8 DEF Server!Stop, Server!Join, Server!acceptVars, Server!registryVars,
     Server!sessionVars, ServerInv, Types, OwnerTypes, RegistryTypes
<1>9. CASE Server!DestroyServer
  <2>1. UNCHANGED <<up, down, interfaces, capacity, storage, adding, session, ref,
                    handled, sent, stopped>>
    BY <1>9 DEF Server!DestroyServer, Server!registryVars, Server!sessionVars
  <2>2. /\ owner \notin {"new", "refused"} /\ owner' = "destroying"
        /\ backlog' = <<>> /\ accept' \in {accept, "none"}
        /\ gone' = gone \cup Range(backlog)
    BY <1>9 DEF Server!DestroyServer, Server!Range, Range
  <2>3. OwnerTypes'
    BY <1>9 DEF Server!DestroyServer, ServerInv, Types, OwnerTypes, Server!Removed
  <2>4. Range(backlog) \subseteq Client /\ AcceptTypes' /\ IsInjective(backlog')
        /\ Range(backlog') = {}
    BY <2>2 DEF ServerInv, Types, AcceptTypes, Range, IsInjective
  <2>5. Types'
    BY <2>1, <2>2, <2>3, <2>4 DEF ServerInv, Types, WireTypes, RegistryTypes,
       SessionTypes, CallTypes, clientVars
  <2>6. RegistryInv' /\ AdmissionInv'
    BY <2>1, <2>2, <2>4, ClientAssumption
       DEF ServerInv, RegistryInv, AdmissionInv, clientVars
  <2>7. \A c \in Client : SessionInv(c)'
    BY <1>1, <2>1, <2>5, SessionsFrame
  <2> QED BY <2>5, <2>6, <2>7 DEF ServerInv
<1>10. CASE Server!DestroyService
  BY <1>2, <1>10 DEF Server!DestroyService, Server!acceptVars, Server!registryVars,
     Server!sessionVars, ServerInv, Types, OwnerTypes, RegistryTypes
<1>11. CASE Server!DestroyPool
  <2>1. UNCHANGED <<up, down, interfaces, capacity, storage, adding, ref, handled,
                    sent, backlog, path>>
    BY <1>11 DEF Server!DestroyPool, Server!registryVars
  <2>2. /\ owner = "destroying" /\ owner' = "destroyed" /\ members' = {} /\ stopped'
        /\ accept' = "none" /\ session' = [c \in Client |-> "none"]
        /\ gone' \subseteq gone \cup Client
    BY <1>11 DEF Server!DestroyPool
  <2>3. Types'
    BY <2>1, <2>2 DEF ServerInv, Types, WireTypes, OwnerTypes, AcceptTypes,
       RegistryTypes, SessionTypes, CallTypes, clientVars, Server!Phases
  <2>4. RegistryInv' /\ AdmissionInv'
    BY <2>1, <2>2, ClientAssumption
       DEF ServerInv, RegistryInv, AdmissionInv, clientVars
  <2>5. \A c \in Client : SessionInv(c)'
    BY <1>1, <2>1, <2>2, <2>3, SessionsFrame
  <2> QED BY <2>3, <2>4, <2>5 DEF ServerInv
<1> QED BY <1>4, <1>5, <1>6, <1>7, <1>8, <1>9, <1>10, <1>11
        DEF Server!OwnerStep, Server!Range, Range

\* The steps of the accept loop, and a connection that arrives.
LEMMA AcceptKeepsServer ==
  ASSUME ServerInv, Server!AcceptStep \/ Server!AcceptFails, UNCHANGED clientVars
  PROVE  ServerInv'
<1>1. /\ Extends(interfaces, interfaces)
      /\ \A c \in Client : Extends(up[c], up[c])
  BY ExtendsItself DEF ServerInv, Types, RegistryTypes, WireTypes
<1>2. ~stopped /\ accept # "none"
  BY ClientAssumption DEF Server!AcceptStep, Server!RunPosted, Server!AcceptCompletes,
     Server!HandleAccept, Server!AcceptFails
<1>3. owner \notin {"new", "refused"}
  BY <1>2 DEF ServerInv, RegistryInv
<1>4. UNCHANGED <<up, down, gone, owner, members, stopped, path, interfaces, capacity,
                  adding, ref, handled, sent>>
  BY DEF Server!AcceptStep, Server!RunPosted, Server!AcceptCompletes,
     Server!HandleAccept, Server!AcceptFails, Server!ownerVars, Server!registryVars,
     Server!sessionVars
<1>5. ASSUME AcceptTypes', SessionTypes' PROVE Types'
  BY <1>4, <1>5 DEF ServerInv, Types, WireTypes, OwnerTypes, RegistryTypes,
     SessionTypes, CallTypes, clientVars
<1>6. RegistryInv'
  BY <1>3, <1>4 DEF ServerInv, RegistryInv
<1>7. ASSUME session' = session, AcceptTypes', AdmissionInv' PROVE ServerInv'
  <2>1. Types'
    BY <1>4, <1>5, <1>7 DEF ServerInv, Types, SessionTypes
  <2> QED BY <1>1, <1>4, <1>6, <1>7, <2>1, SessionsFrame DEF ServerInv
<1>8. CASE Server!RunPosted \/ Server!AcceptFails
  <2>1. session' = session /\ backlog' = backlog /\ accept' \in {"pending", "failed"}
    BY <1>8 DEF Server!RunPosted, Server!AcceptFails, Server!sessionVars
  <2>2. AcceptTypes' /\ AdmissionInv'
    BY <1>4, <2>1, ClientAssumption
       DEF ServerInv, Types, AcceptTypes, AdmissionInv, clientVars
  <2> QED BY <1>7, <2>1, <2>2
<1>9. CASE Server!AcceptCompletes
  <2>1. /\ session' = session /\ backlog # <<>>
        /\ accept' = Head(backlog) /\ backlog' = Tail(backlog)
    BY <1>9 DEF Server!AcceptCompletes, Server!sessionVars
  <2>2. /\ Head(backlog) \in Client /\ backlog' \in Seq(Client) /\ IsInjective(backlog')
        /\ Head(backlog) \in Range(backlog)
        /\ Range(backlog') = Range(backlog) \ {Head(backlog)}
    BY <2>1, WithoutFirst DEF ServerInv, Types, AcceptTypes, AdmissionInv
  <2>3. AcceptTypes' /\ AdmissionInv'
    BY <1>4, <2>1, <2>2 DEF ServerInv, AcceptTypes, AdmissionInv, clientVars
  <2> QED BY <1>7, <2>1, <2>3
<1>10. ASSUME NEW c \in Client, Server!HandleAccept(c) PROVE ServerInv'
  <2>1. /\ accept = c /\ accept' = "pending" /\ backlog' = backlog
        /\ session' = [session EXCEPT ![c] = "reading"]
    BY <1>10 DEF Server!HandleAccept
  <2>2. /\ session[c] = "none" /\ c \in connected /\ c \notin Range(backlog)
    BY <2>1 DEF ServerInv, AdmissionInv
  <2>3. session \in [Client -> Server!Phases]
    BY DEF ServerInv, Types, SessionTypes
  <2>4. Types'
    BY <1>4, <1>5, <2>1, <2>3
       DEF ServerInv, Types, AcceptTypes, SessionTypes, Server!Phases
  <2>5. AdmissionInv'
    BY <1>3, <1>4, <2>1, <2>2, <2>3, ClientAssumption
       DEF ServerInv, AdmissionInv, clientVars
  <2>6. SessionInv(c)'
    <3>1. SessionInv(c) /\ session'[c] = "reading"
      BY <2>1, <2>3 DEF ServerInv
    <3>2. down[c] = <<>> /\ sent[c] = 0
      BY <1>2, <2>2, <3>1 DEF SessionInv, PhaseInv
    <3> QED BY <1>4, <3>1, <3>2
            DEF SessionInv, ReplyInv, PhaseInv, InCall, Ended
  <2>7. ASSUME NEW x \in Client, x # c PROVE SessionInv(x)'
    <3>1. session'[x] = session[x] /\ SessionInv(x)
      BY <2>1, <2>3, <2>7 DEF ServerInv
    <3> QED BY <1>1, <1>4, <2>4, <3>1, SessionFrame DEF ServerInv
  <2> QED BY <1>6, <2>4, <2>5, <2>6, <2>7 DEF ServerInv
<1> QED BY <1>8, <1>9, <1>10 DEF Server!AcceptStep

\* The server sees nothing of what a client does but its requests.
LEMMA ClientKeepsServer ==
  ASSUME ServerInv, UNCHANGED <<serverVars, down, gone, connected>>,
         up' \in [Client -> Seq(Clients!Request)], CallTypes',
         \A c \in Client : /\ Extends(up[c], up'[c])
                           /\ waiting'[c] # 0 => c \in connected
  PROVE  ServerInv'
<1>1. Types'
  BY DEF ServerInv, Types, WireTypes, OwnerTypes, AcceptTypes, RegistryTypes,
     SessionTypes, serverVars
<1>2. RegistryInv' /\ AdmissionInv'
  BY DEF ServerInv, RegistryInv, AdmissionInv, serverVars
<1>3. Extends(interfaces, interfaces')
  BY ExtendsItself DEF ServerInv, Types, RegistryTypes, serverVars
<1>4. ASSUME NEW c \in Client PROVE SessionInv(c)'
  <2>1. UNCHANGED <<down[c], handled[c], sent[c], ref[c], session[c], stopped>>
    BY DEF serverVars
  <2>2. SessionInv(c) /\ Extends(up[c], up'[c])
    BY DEF ServerInv
  <2> QED BY <1>1, <1>3, <2>1, <2>2, SessionFrame DEF ServerInv
<1> QED BY <1>1, <1>2, <1>4 DEF ServerInv

LEMMA ConnectKeepsServer ==
  ASSUME ServerInv, NEW c \in Client, Connect(c)
  PROVE  ServerInv'
<1>1. /\ c \notin connected /\ connected' = connected \cup {c}
      /\ backlog' = Append(backlog, c)
      /\ UNCHANGED <<owner, members, stopped, path, accept, interfaces, capacity, adding,
                     session, ref, handled, sent, up, down, gone, broken, calls,
                     waiting, taken>>
  BY DEF Connect, Server!Connects, Server!ownerVars, Server!registryVars,
     Server!sessionVars
<1>2. c \notin Range(backlog) /\ session[c] = "none" /\ accept # c
  BY <1>1 DEF ServerInv, AdmissionInv
<1>3. /\ backlog' \in Seq(Client) /\ IsInjective(backlog')
      /\ Range(backlog') = Range(backlog) \cup {c}
  BY <1>1, <1>2, ExtendsAppend, NewEntry
     DEF ServerInv, Types, AcceptTypes, AdmissionInv
<1>4. Types'
  BY <1>1, <1>3 DEF ServerInv, Types, WireTypes, OwnerTypes, AcceptTypes, RegistryTypes,
     SessionTypes, CallTypes
<1>5. RegistryInv' /\ AdmissionInv'
  BY <1>1, <1>2, <1>3 DEF ServerInv, RegistryInv, AdmissionInv
<1>6. Extends(interfaces, interfaces')
  BY <1>1, ExtendsItself DEF ServerInv, Types, RegistryTypes
<1> QED BY <1>1, <1>4, <1>5, <1>6, SessionsFrame DEF ServerInv

\* A session's step is right if it is right for its connection.
LEMMA OneSession ==
  ASSUME ServerInv, NEW c \in Client, UNCHANGED clientVars,
         UNCHANGED <<up, gone, owner, members, stopped, path, accept, backlog,
                     interfaces, capacity, adding>>,
         down' = [down EXCEPT ![c] = down'[c]],
         session' = [session EXCEPT ![c] = session'[c]],
         ref' = [ref EXCEPT ![c] = ref'[c]],
         handled' = [handled EXCEPT ![c] = handled'[c]],
         sent' = [sent EXCEPT ![c] = sent'[c]],
         down'[c] \in Seq(Server!Reply), Extends(down[c], down'[c]),
         handled'[c] \in Nat, sent'[c] \in Nat,
         session[c] # "none", session'[c] \in Server!Phases,
         SessionInv(c)'
  PROVE  ServerInv'
<1>1. SessionTypes'
  BY DEF ServerInv, Types, SessionTypes
<1>2. WireTypes'
  BY DEF ServerInv, Types, WireTypes
<1>3. CallTypes'
  <2>1. \A x \in Client : taken[x] <= Len(down'[x])
    <3> TAKE x \in Client
    <3>1. taken[x] <= Len(down[x]) /\ taken[x] \in Nat /\ Len(down[x]) \in Nat
      BY DEF ServerInv, Types, CallTypes, WireTypes
    <3>2. CASE x = c
      <4>1. Len(down[c]) <= Len(down'[c]) /\ Len(down'[c]) \in Nat
        BY DEF Extends
      <4> QED BY <3>1, <3>2, <4>1
    <3>3. CASE x # c
      <4>1. down'[x] = down[x]
        BY <3>3 DEF ServerInv, Types, WireTypes
      <4> QED BY <3>1, <4>1
    <3> QED BY <3>2, <3>3
  <2> QED BY <2>1 DEF ServerInv, Types, CallTypes, clientVars
<1>4. Types'
  BY <1>1, <1>2, <1>3
     DEF ServerInv, Types, OwnerTypes, AcceptTypes, RegistryTypes
<1>5. RegistryInv' /\ AdmissionInv'
  BY DEF ServerInv, Types, SessionTypes, RegistryInv, AdmissionInv, clientVars
<1>6. ASSUME NEW x \in Client, x # c PROVE SessionInv(x)'
  <2>1. UNCHANGED <<down[x], handled[x], sent[x], ref[x], session[x]>>
    BY <1>6 DEF ServerInv, Types, WireTypes, SessionTypes
  <2>2. Extends(interfaces, interfaces') /\ Extends(up[x], up'[x])
    BY ExtendsItself DEF ServerInv, Types, RegistryTypes, WireTypes
  <2> QED BY <1>4, <2>1, <2>2, SessionFrame DEF ServerInv
<1> QED BY <1>4, <1>5, <1>6 DEF ServerInv

\* What is there in every state of a session.
LEMMA SessionFacts ==
  ASSUME ServerInv, NEW c \in Client
  PROVE  /\ SessionInv(c) /\ session[c] \in Server!Phases
         /\ handled[c] \in Nat /\ sent[c] \in Nat
         /\ up[c] \in Seq(Clients!Request) /\ Len(up[c]) \in Nat
         /\ down[c] \in Seq(Server!Reply) /\ Len(down[c]) \in Nat
         /\ interfaces \in Seq(Server!Name) /\ Len(interfaces) \in Nat
         /\ Range(interfaces) \subseteq Server!Name
         /\ Range(interfaces) = {interfaces[k] : k \in 1 .. Len(interfaces)}
<1>1. /\ SessionInv(c) /\ session[c] \in Server!Phases
      /\ handled[c] \in Nat /\ sent[c] \in Nat
      /\ up[c] \in Seq(Clients!Request) /\ down[c] \in Seq(Server!Reply)
      /\ interfaces \in Seq(Server!Name)
  BY DEF ServerInv, Types, SessionTypes, WireTypes, RegistryTypes
<1>2. DOMAIN interfaces = 1 .. Len(interfaces) /\ Len(interfaces) \in Nat
  BY <1>1
<1>3. Range(interfaces) = {interfaces[k] : k \in 1 .. Len(interfaces)}
  BY <1>2 DEF Range
<1> QED BY <1>1, <1>2, <1>3

LEMMA DispatchKeepsServer ==
  ASSUME ServerInv, NEW c \in Client, Server!Dispatch(c), UNCHANGED clientVars
  PROVE  ServerInv'
<1>1. /\ session[c] = "reading" /\ handled[c] < Len(up[c])
      /\ handled' = [handled EXCEPT ![c] = @ + 1]
      /\ session' = [session EXCEPT ![c] = "searching"]
      /\ ref' = [ref EXCEPT ![c] = [storage |-> Server!Published, len |-> Len(interfaces)]]
      /\ UNCHANGED <<up, down, gone, owner, members, stopped, path, accept, backlog,
                     interfaces, capacity, adding, sent>>
  BY DEF Server!Dispatch, Server!ownerVars, Server!acceptVars, Server!registryVars
<1>2. owner \notin {"new", "refused"}
  BY <1>1 DEF ServerInv, AdmissionInv
<1>3. Len(interfaces) >= 1 /\ Len(interfaces) \in Nat
  BY <1>2, SessionFacts DEF ServerInv, RegistryInv
<1>4. /\ handled'[c] = handled[c] + 1 /\ session'[c] = "searching"
      /\ ref'[c].len = Len(interfaces)
  BY <1>1 DEF ServerInv, Types, SessionTypes
<1>5. SessionInv(c)'
  <2>1. ReplyInv(c)'
    <3>1. \A q \in 1 .. handled[c] : q \in 1 .. handled'[c]
      BY <1>4, SessionFacts
    <3>2. UNCHANGED <<down[c], up, interfaces>> /\ ReplyInv(c)
      BY <1>1, SessionFacts DEF SessionInv
    <3> QED BY <3>1, <3>2 DEF ReplyInv
  <2>2. Seen(c)' = Range(interfaces)
    BY <1>1, <1>4, SessionFacts DEF Seen
  <2>3. PhaseInv(c)'
    BY <1>1, <1>3, <1>4, <2>2, SessionFacts
       DEF SessionInv, ReplyInv, PhaseInv, InCall, Ended
  <2> QED BY <2>1, <2>3 DEF SessionInv
<1>6. Extends(down[c], down'[c])
  BY <1>1, SessionFacts DEF Extends
<1>7. session' = [session EXCEPT ![c] = session'[c]]
  BY <1>1, <1>4
<1>8. ref' = [ref EXCEPT ![c] = ref'[c]]
  BY <1>1 DEF ServerInv, Types, SessionTypes
<1>9. handled' = [handled EXCEPT ![c] = handled'[c]]
  BY <1>1, <1>4
<1>10. down' = [down EXCEPT ![c] = down'[c]] /\ sent' = [sent EXCEPT ![c] = sent'[c]]
  BY <1>1 DEF ServerInv, Types, SessionTypes, WireTypes
<1>11. /\ session'[c] \in Server!Phases /\ session[c] # "none"
       /\ down'[c] \in Seq(Server!Reply) /\ handled'[c] \in Nat /\ sent'[c] \in Nat
  BY <1>1, <1>4, SessionFacts DEF Server!Phases
<1> QED BY <1>1, <1>5, <1>6, <1>7, <1>8, <1>9, <1>10, <1>11, OneSession

LEMMA SearchKeepsServer ==
  ASSUME ServerInv, NEW c \in Client, Server!Search(c), UNCHANGED clientVars
  PROVE  ServerInv'
<1>1. /\ session[c] = "searching"
      /\ UNCHANGED <<up, down, gone, owner, members, stopped, path, accept, backlog,
                     interfaces, capacity, adding, ref, handled, sent>>
      /\ session' = [session EXCEPT ![c] = session'[c]]
      /\ session'[c] \in {"missing", "found"}
      /\ session'[c] = "missing" => ~Server!Found(c)
  BY DEF Server!Search, Server!ownerVars, Server!acceptVars, Server!registryVars,
     ServerInv, Types, SessionTypes
<1>2. SessionInv(c)'
  <2>1. InCall(c) /\ Seen(c)' = Seen(c) /\ ReplyInv(c)'
    BY <1>1, SessionFacts DEF InCall, Seen, SessionInv, ReplyInv
  <2>2. session'[c] = "missing" => Server!Target(Server!Current(c)) \notin Seen(c)
    BY <1>1 DEF Server!Found, Seen
  <2>3. Server!Target(Server!Current(c))' = Server!Target(Server!Current(c))
    BY <1>1 DEF Server!Target, Server!Current
  <2>4. PhaseInv(c)'
    BY <1>1, <2>1, <2>2, <2>3, SessionFacts DEF SessionInv, PhaseInv, InCall, Ended
  <2> QED BY <2>1, <2>4 DEF SessionInv
<1>3. Extends(down[c], down'[c])
  BY <1>1, SessionFacts DEF Extends
<1>4. /\ down' = [down EXCEPT ![c] = down'[c]] /\ sent' = [sent EXCEPT ![c] = sent'[c]]
      /\ ref' = [ref EXCEPT ![c] = ref'[c]]
      /\ handled' = [handled EXCEPT ![c] = handled'[c]]
  BY <1>1 DEF ServerInv, Types, SessionTypes, WireTypes
<1> QED BY <1>1, <1>2, <1>3, <1>4, SessionFacts, OneSession DEF Server!Phases

\* A reply, written by a callback or in its place.
LEMMA ReplyKeepsServer ==
  ASSUME ServerInv, NEW c \in Client, UNCHANGED clientVars,
         InCall(c) \/ session[c] = "streaming",
         NEW continues \in BOOLEAN, NEW error \in BOOLEAN,
         NEW known \in SUBSET Range(interfaces),
         Server!Replies(c, continues, error, known),
         continues => /\ Server!Current(c).mode = "more"
                      /\ Server!Current(c).of \in Range(interfaces)
                      /\ sent[c] < MaxReplies,
         error => \A i \in 1 .. Len(down[c]) :
                    Server!Current(c).of \notin down[c][i].known
  PROVE  ServerInv'
<1> DEFINE d == down[c]
           reply == [req |-> handled[c], n |-> sent[c] + 1, continues |-> continues,
                     error |-> error, known |-> known]
<1>1. /\ SessionInv(c) /\ ReplyInv(c) /\ PhaseInv(c)
      /\ handled[c] \in Nat /\ sent[c] \in Nat /\ d \in Seq(Server!Reply)
      /\ Len(d) \in Nat /\ Len(up[c]) \in Nat
      /\ Range(interfaces) \subseteq Server!Name
  BY SessionFacts DEF SessionInv
<1>2. reply \in Server!Reply
  BY <1>1 DEF Server!Reply
<1>3. handled[c] > 0 /\ handled[c] <= Len(up[c])
  BY <1>1 DEF PhaseInv
<1>4. /\ down' = [down EXCEPT ![c] = Append(d, reply)]
      /\ sent' = [sent EXCEPT ![c] = IF continues THEN sent[c] + 1 ELSE 0]
      /\ session' = [session EXCEPT ![c] = IF continues THEN "streaming" ELSE "reading"]
      /\ ref' = [ref EXCEPT ![c] = Server!NoRef]
      /\ UNCHANGED <<up, gone, owner, members, stopped, path, accept, backlog,
                     interfaces, capacity, adding, handled>>
  BY DEF Server!Replies, Server!ownerVars, Server!acceptVars, Server!registryVars
<1>5. /\ down'[c] = Append(d, reply)
      /\ sent'[c] = IF continues THEN sent[c] + 1 ELSE 0
      /\ session'[c] = IF continues THEN "streaming" ELSE "reading"
  BY <1>4 DEF ServerInv, Types, WireTypes, SessionTypes
<1>6. /\ down'[c] \in Seq(Server!Reply) /\ Extends(d, down'[c])
      /\ Len(down'[c]) = Len(d) + 1 /\ down'[c][Len(d) + 1] = reply
      /\ \A i \in 1 .. Len(d) : down'[c][i] = d[i]
  BY <1>1, <1>2, <1>5, ExtendsAppend DEF Extends
<1>7. \A i \in 1 .. Len(d) + 1 : i \in 1 .. Len(d) \/ i = Len(d) + 1
  BY <1>1
<1>8. d # <<>> => Len(d) \in 1 .. Len(d) /\ Follows(d[Len(d)], reply)
  <2> HAVE d # <<>>
  <2>1. Len(d) \in 1 .. Len(d)
    BY <1>1
  <2>2. CASE InCall(c)
    <3>1. /\ sent[c] = 0 /\ ~d[Len(d)].continues /\ d[Len(d)].req < handled[c]
      BY <1>1, <2>1, <2>2 DEF PhaseInv, Ended
    <3> QED BY <2>1, <3>1, <1>1 DEF Follows
  <2>3. CASE session[c] = "streaming"
    BY <1>1, <2>1, <2>3 DEF PhaseInv, Follows
  <2> QED BY <2>2, <2>3
<1>9. InOrder(down'[c])
  <2>1. down'[c][1].n = 1
    <3>1. CASE d = <<>>
      <4>1. InCall(c) /\ sent[c] = 0 /\ Len(d) = 0
        BY <1>1, <3>1 DEF PhaseInv
      <4> QED BY <1>6, <4>1
    <3>2. CASE d # <<>>
      <4>1. 1 \in 1 .. Len(d)
        BY <1>1, <3>2
      <4> QED BY <1>1, <1>6, <3>2, <4>1 DEF ReplyInv, InOrder
    <3> QED BY <3>1, <3>2
  <2>2. ASSUME NEW i \in 1 .. Len(down'[c]) - 1
        PROVE  Follows(down'[c][i], down'[c][i + 1])
    <3>1. CASE i = Len(d)
      <4>1. d # <<>> /\ i \in 1 .. Len(d)
        BY <1>1, <1>6, <2>2, <3>1
      <4> QED BY <1>6, <1>8, <3>1, <4>1
    <3>2. CASE i # Len(d)
      <4>1. i \in 1 .. Len(d) - 1 /\ i \in 1 .. Len(d) /\ i + 1 \in 1 .. Len(d)
        BY <1>1, <1>6, <2>2, <3>2
      <4>2. Follows(d[i], d[i + 1])
        BY <1>1, <4>1 DEF ReplyInv, InOrder
      <4> QED BY <1>6, <4>1, <4>2
    <3> QED BY <3>1, <3>2
  <2> QED BY <2>1, <2>2 DEF InOrder
<1>10. ReplyInv(c)'
  <2>1. \A i \in 1 .. Len(d) + 1 : /\ down'[c][i].req \in 1 .. handled[c]
                                   /\ down'[c][i].known \subseteq Range(interfaces)
    <3>1. \A i \in 1 .. Len(d) : /\ d[i].req \in 1 .. handled[c]
                                 /\ d[i].known \subseteq Range(interfaces)
      BY <1>1 DEF ReplyInv
    <3>2. reply.req \in 1 .. handled[c] /\ reply.known \subseteq Range(interfaces)
      BY <1>1, <1>3
    <3> HIDE DEF reply, d
    <3> QED BY <1>6, <1>7, <3>1, <3>2
  <2>2. ASSUME NEW i \in 1 .. Len(d) + 1, NEW j \in 1 .. Len(d) + 1,
               down'[c][i].req < down'[c][j].req, down'[c][j].error
        PROVE  up[c][down'[c][j].req].of \notin down'[c][i].known
    <3>1. i \in 1 .. Len(d)
      <4> SUFFICES ASSUME i = Len(d) + 1 PROVE FALSE
        BY <1>7
      <4>1. down'[c][i].req = handled[c]
        BY <1>6
      <4>2. down'[c][j].req \in 1 .. handled[c]
        BY <2>1
      <4> QED BY <1>1, <2>2, <4>1, <4>2
    <3>2. CASE j \in 1 .. Len(d)
      BY <1>1, <1>6, <2>2, <3>1, <3>2 DEF ReplyInv
    <3>3. CASE j = Len(d) + 1
      BY <1>6, <2>2, <3>1, <3>3 DEF Server!Current
    <3> QED BY <1>7, <3>2, <3>3
  <2> QED BY <1>4, <1>6, <1>9, <2>1, <2>2 DEF ReplyInv
<1>11. PhaseInv(c)'
  <2>1. handled'[c] <= Len(up'[c]) /\ sent'[c] <= MaxReplies
    BY <1>1, <1>3, <1>4, <1>5, RepliesAssumption
  <2>2. CASE ~continues
    <3>1. session'[c] = "reading" /\ sent'[c] = 0 /\ Ended(c)'
      BY <1>5, <1>6, <2>2 DEF Ended
    <3> QED BY <2>1, <3>1 DEF PhaseInv, InCall
  <2>3. CASE continues
    <3>1. session'[c] = "streaming" /\ sent'[c] = sent[c] + 1 /\ handled'[c] = handled[c]
      BY <1>4, <1>5, <2>3
    <3>2. Server!Current(c)' = Server!Current(c)
      BY <1>4 DEF Server!Current
    <3>3. /\ down'[c] # <<>> /\ down'[c][Len(down'[c])] = reply
      BY <1>1, <1>6
    <3>4. ASSUME NEW i \in 1 .. Len(d) + 1, down'[c][i].req = handled[c]
          PROVE  down'[c][i].continues
      <4>1. CASE i \in 1 .. Len(d)
        <5>1. down'[c][i] = d[i] /\ d[i].req = handled[c]
          BY <1>6, <3>4, <4>1
        <5>2. ~InCall(c)
          BY <1>1, <4>1, <5>1 DEF PhaseInv
        <5> QED BY <1>1, <4>1, <5>1, <5>2 DEF PhaseInv
      <4>2. CASE i = Len(d) + 1
        BY <1>6, <2>3, <4>2
      <4> QED BY <1>7, <4>1, <4>2
    <3> QED BY <1>3, <1>4, <1>6, <2>1, <2>3, <3>1, <3>2, <3>3, <3>4
            DEF PhaseInv, InCall
  <2> QED BY <2>2, <2>3
<1>12. /\ session[c] # "none" /\ session'[c] \in Server!Phases
       /\ handled'[c] \in Nat /\ sent'[c] \in Nat
  BY <1>1, <1>4, <1>5 DEF InCall, Server!Phases
<1>13. /\ down' = [down EXCEPT ![c] = down'[c]] /\ sent' = [sent EXCEPT ![c] = sent'[c]]
       /\ session' = [session EXCEPT ![c] = session'[c]]
       /\ ref' = [ref EXCEPT ![c] = ref'[c]]
       /\ handled' = [handled EXCEPT ![c] = handled'[c]]
  BY <1>4, <1>5 DEF ServerInv, Types, SessionTypes
<1> QED BY <1>4, <1>6, <1>10, <1>11, <1>12, <1>13, OneSession DEF SessionInv

\* A oneway call that is not replied to.
LEMMA SilenceKeepsServer ==
  ASSUME ServerInv, NEW c \in Client, UNCHANGED clientVars, InCall(c),
         session' = [session EXCEPT ![c] = "reading"],
         ref' = [ref EXCEPT ![c] = Server!NoRef],
         UNCHANGED <<up, down, gone, owner, members, stopped, path, accept, backlog,
                     interfaces, capacity, adding, handled, sent>>
  PROVE  ServerInv'
<1>1. SessionInv(c)'
  <2>1. ReplyInv(c)'
    BY SessionFacts DEF SessionInv, ReplyInv
  <2>2. session'[c] = "reading"
    BY DEF ServerInv, Types, SessionTypes
  <2>3. PhaseInv(c)'
    BY <2>2, SessionFacts DEF SessionInv, PhaseInv, InCall, Ended
  <2> QED BY <2>1, <2>3 DEF SessionInv
<1>2. /\ down' = [down EXCEPT ![c] = down'[c]] /\ sent' = [sent EXCEPT ![c] = sent'[c]]
      /\ session' = [session EXCEPT ![c] = session'[c]]
      /\ ref' = [ref EXCEPT ![c] = ref'[c]]
      /\ handled' = [handled EXCEPT ![c] = handled'[c]]
  BY DEF ServerInv, Types, SessionTypes, WireTypes
<1>3. /\ Extends(down[c], down'[c]) /\ down'[c] \in Seq(Server!Reply)
      /\ handled'[c] \in Nat /\ sent'[c] \in Nat
  BY SessionFacts DEF Extends
<1>4. session[c] # "none" /\ session'[c] \in Server!Phases
  BY DEF InCall, ServerInv, Types, SessionTypes, Server!Phases
<1> QED BY <1>1, <1>2, <1>3, <1>4, OneSession

\* What find_interface finds: the service's own interface always.
LEMMA StdFound ==
  ASSUME ServerInv, NEW c \in Client, InCall(c)
  PROVE  /\ Server!Std \in Seen(c) /\ Seen(c) \subseteq Range(interfaces)
         /\ session[c] = "missing"
               => Server!Current(c).call = "Call" /\ Server!Current(c).of \notin Seen(c)
         /\ ~Server!Found(c)
               => Server!Current(c).call = "Call" /\ Server!Current(c).of \notin Seen(c)
<1>1. session[c] # "none" /\ owner \notin {"new", "refused"}
  BY DEF InCall, ServerInv, AdmissionInv
<1>2. interfaces[1] = Server!Std /\ ref[c].len \in 1 .. Len(interfaces)
  BY <1>1, SessionFacts DEF ServerInv, RegistryInv, SessionInv, PhaseInv
<1>3. Server!Std \in Seen(c) /\ Seen(c) \subseteq Range(interfaces)
  <2>1. 1 \in 1 .. ref[c].len
    BY <1>2, SessionFacts
  <2>2. Server!Std \in Seen(c)
    BY <1>2, <2>1 DEF Seen
  <2>3. \A k \in 1 .. ref[c].len : k \in 1 .. Len(interfaces)
    BY <1>2, SessionFacts
  <2> QED BY <2>2, <2>3, SessionFacts DEF Seen
<1>4. session[c] = "missing" => Server!Target(Server!Current(c)) \notin Seen(c)
  BY SessionFacts DEF SessionInv, PhaseInv
<1>5. ~Server!Found(c) => Server!Target(Server!Current(c)) \notin Seen(c)
  BY DEF Server!Found, Seen
<1>6. Server!Target(Server!Current(c)) \notin Seen(c)
        => Server!Current(c).call = "Call" /\ Server!Current(c).of \notin Seen(c)
  BY <1>3 DEF Server!Target
<1> QED BY <1>3, <1>4, <1>5, <1>6

\* An error says what is not known: the client was told nothing else.
LEMMA ErrorKeepsServer ==
  ASSUME ServerInv, NEW c \in Client, UNCHANGED clientVars, InCall(c),
         Server!RepliesError(c), Server!Current(c).of \notin Seen(c)
  PROVE  ServerInv'
<1>1. \A i \in 1 .. Len(down[c]) : Server!Current(c).of \notin down[c][i].known
  BY SessionFacts DEF SessionInv, PhaseInv
<1> QED BY <1>1, ReplyKeepsServer DEF Server!RepliesError

\* What the reply function does is right whatever the mode of the call.
LEMMA AnswerKeepsServer ==
  ASSUME ServerInv, NEW c \in Client, UNCHANGED clientVars,
         InCall(c) \/ session[c] = "streaming",
         NEW continues \in BOOLEAN, NEW known \in SUBSET Range(interfaces),
         Server!Answers(c, continues, known),
         continues => /\ Server!Current(c).mode = "more"
                      /\ Server!Current(c).of \in Range(interfaces)
                      /\ sent[c] < MaxReplies
  PROVE  ServerInv'
<1>1. CASE Server!Current(c).mode = "oneway"
  <2>1. InCall(c)
    BY <1>1, SessionFacts DEF SessionInv, PhaseInv
  <2> QED BY <1>1, <2>1, SilenceKeepsServer
          DEF Server!Answers, Server!ownerVars, Server!acceptVars, Server!registryVars
<1>2. CASE Server!Current(c).mode # "oneway"
  BY <1>2, ReplyKeepsServer DEF Server!Answers
<1> QED BY <1>1, <1>2

LEMMA ExecuteKeepsServer ==
  ASSUME ServerInv, NEW c \in Client, Server!Execute(c), UNCHANGED clientVars
  PROVE  ServerInv'
<1> DEFINE request == Server!Current(c)
           known == IF request.call = "GetInfo" THEN Range(interfaces) ELSE {request.of}
<1>1. InCall(c) /\ session[c] = "found"
  BY DEF Server!Execute, InCall
<1>2. \/ known \subseteq Range(interfaces) /\ Server!Answers(c, FALSE, known)
      \/ /\ Server!Entry(c) = Server!Target(request)
         /\ known \subseteq Range(interfaces) /\ request.mode = "more"
         /\ request.call = "Call" /\ MaxReplies > 0 /\ Server!Answers(c, TRUE, known)
      \/ /\ Server!Entry(c) # Server!Target(request) \/ ~(known \subseteq Range(interfaces))
         /\ Server!RepliesError(c)
  BY DEF Server!Execute, Server!Range, Range
<1>3. CASE known \subseteq Range(interfaces) /\ Server!Answers(c, FALSE, known)
  BY <1>1, <1>3, AnswerKeepsServer
<1>4. CASE /\ known \subseteq Range(interfaces) /\ request.mode = "more"
           /\ request.call = "Call" /\ MaxReplies > 0 /\ Server!Answers(c, TRUE, known)
  <2>1. request.of \in Range(interfaces) /\ sent[c] = 0
    BY <1>1, <1>4, SessionFacts DEF SessionInv, PhaseInv
  <2>2. sent[c] < MaxReplies
    BY <1>4, <2>1
  <2>3. known \in SUBSET Range(interfaces) /\ TRUE \in BOOLEAN
    BY <1>4
  <2> HIDE DEF known
  <2> QED BY <1>1, <1>4, <2>1, <2>2, <2>3, AnswerKeepsServer
<1>5. CASE /\ Server!Entry(c) # Server!Target(request) \/ ~(known \subseteq Range(interfaces))
           /\ Server!RepliesError(c)
  <2>1. request.of \notin Seen(c)
    <3>1. CASE Server!Entry(c) # Server!Target(request)
      BY <1>1, <3>1, StdFound DEF Server!Entry
    <3>2. CASE ~(known \subseteq Range(interfaces))
      BY <1>1, <3>2, StdFound
    <3> QED BY <1>5, <3>1, <3>2
  <2> QED BY <1>1, <1>5, <2>1, ErrorKeepsServer
<1> QED BY <1>2, <1>3, <1>4, <1>5

LEMMA SessionKeepsServer ==
  ASSUME ServerInv, NEW c \in Client, Server!SessionStep(c) \/ Server!Stream(c),
         UNCHANGED clientVars
  PROVE  ServerInv'
<1>1. CASE Server!NotFound(c)
  <2>1. InCall(c) /\ session[c] = "missing" /\ Server!RepliesError(c)
    BY <1>1 DEF Server!NotFound, InCall
  <2> QED BY <2>1, StdFound, ErrorKeepsServer
<1>2. CASE Server!Stream(c) \/ Server!EndStream(c)
  <2>1. session[c] = "streaming"
    BY <1>2 DEF Server!Stream, Server!EndStream
  <2>2. /\ Server!Current(c).mode = "more"
        /\ {Server!Current(c).of} \in SUBSET Range(interfaces)
    BY <2>1, SessionFacts DEF SessionInv, PhaseInv
  <2>3. \/ sent[c] < MaxReplies /\ Server!Answers(c, TRUE, {Server!Current(c).of})
        \/ Server!Answers(c, FALSE, {Server!Current(c).of})
    BY <1>2 DEF Server!Stream, Server!EndStream
  <2> QED BY <2>1, <2>2, <2>3, AnswerKeepsServer
<1> QED BY <1>1, <1>2, DispatchKeepsServer, SearchKeepsServer, ExecuteKeepsServer
        DEF Server!SessionStep

\* A call: a request that is one of the client's.
LEMMA CallKeepsServer ==
  ASSUME ServerInv, NEW c \in Client, NEW request \in Asks[c], Clients!Call(c, request),
         UNCHANGED serverVars
  PROVE  ServerInv'
<1> DEFINE call == [request |-> request, mode |-> request.mode, given |-> <<>>]
<1>1. request \in Clients!Request
  BY DEF Clients!Request
<1>2. call \in CallRecord
  BY <1>1 DEF CallRecord
<1>3. /\ up' = [up EXCEPT ![c] = Append(up[c], request)]
      /\ calls' = [calls EXCEPT ![c] = Append(calls[c], call)]
      /\ waiting' = [waiting EXCEPT ![c] =
                        IF request.mode \in {"basic", "upgrade"} THEN Len(calls'[c]) ELSE 0]
      /\ UNCHANGED <<down, gone, connected, broken, taken>>
  BY DEF Clients!Call
<1>4. /\ up \in [Client -> Seq(Clients!Request)] /\ calls \in [Client -> Seq(CallRecord)]
      /\ waiting \in [Client -> Nat]
  BY DEF ServerInv, Types, WireTypes, CallTypes
<1>5. /\ up'[c] = Append(up[c], request) /\ up'[c] \in Seq(Clients!Request)
      /\ Extends(up[c], up'[c])
  BY <1>1, <1>3, <1>4, ExtendsAppend
<1>6. /\ calls'[c] = Append(calls[c], call) /\ calls'[c] \in Seq(CallRecord)
      /\ Len(calls'[c]) = Len(calls[c]) + 1 /\ Len(calls[c]) \in Nat
      /\ calls'[c][Len(calls[c]) + 1] = call
      /\ \A k \in 1 .. Len(calls[c]) : calls'[c][k] = calls[c][k]
  BY <1>2, <1>3, <1>4, ExtendsAppend DEF Extends
<1>7. up' \in [Client -> Seq(Clients!Request)] /\ \A x \in Client : Extends(up[x], up'[x])
  BY <1>3, <1>4, <1>5, ExtendsItself
<1>8. CallTypes'
  <2>1. calls' \in [Client -> Seq(CallRecord)]
    BY <1>3, <1>4, <1>6
  <2>2. waiting' \in [Client -> Nat] /\ waiting'[c] <= Len(calls'[c])
    BY <1>3, <1>4, <1>6
  <2>3. \A x \in Client : x # c => calls'[x] = calls[x] /\ waiting'[x] = waiting[x]
    BY <1>3, <1>4
  <2>4. \A k \in 1 .. Len(calls[c]) + 1 : k \in 1 .. Len(calls[c]) \/ k = Len(calls[c]) + 1
    BY <1>6
  <2>5. \A k \in 1 .. Len(calls'[c]) :
           calls'[c][k].mode \in {calls'[c][k].request.mode, "oneway"}
    BY <1>6, <2>4 DEF ServerInv, Types, CallTypes
  <2>6. \A x \in Client : \A k \in 1 .. Len(calls'[x]) :
           calls'[x][k].mode \in {calls'[x][k].request.mode, "oneway"}
    BY <2>3, <2>5 DEF ServerInv, Types, CallTypes
  <2>7. \A x \in Client : waiting'[x] <= Len(calls'[x])
    BY <2>2, <2>3 DEF ServerInv, Types, CallTypes
  <2> QED BY <1>3, <2>1, <2>2, <2>6, <2>7 DEF ServerInv, Types, CallTypes
<1>9. \A x \in Client : waiting'[x] # 0 => x \in connected
  BY <1>3, <1>4 DEF Clients!Call, Clients!Usable, ServerInv, AdmissionInv
<1> QED BY <1>3, <1>7, <1>8, <1>9, ClientKeepsServer

\* What receive() returns is added to the call whose closure waits.
LEMMA ReceiveGives ==
  ASSUME ServerInv, NEW c \in Client, Clients!Receive(c)
  PROVE  /\ waiting[c] \in 1 .. Len(calls[c]) /\ taken[c] + 1 \in 1 .. Len(down[c])
         /\ taken[c] \in Nat /\ Len(down[c]) \in Nat /\ Len(calls[c]) \in Nat
         /\ taken'[c] = taken[c] + 1 /\ waiting'[c] = 0
         /\ Len(calls'[c]) = Len(calls[c])
         /\ LET old == calls[c][waiting[c]]
                new == calls'[c][waiting[c]]
                reply == down[c][taken[c] + 1]
            IN  /\ old \in CallRecord /\ new \in CallRecord /\ reply \in Server!Reply
                /\ new.request = old.request /\ new.given = Append(old.given, reply)
                /\ new.mode = Clients!Drains(old.mode, reply)
         /\ \A k \in 1 .. Len(calls[c]) : k # waiting[c] => calls'[c][k] = calls[c][k]
         /\ calls' = [calls EXCEPT ![c] = calls'[c]] /\ calls'[c] \in Seq(CallRecord)
<1> DEFINE w == waiting[c]
           reply == down[c][taken[c] + 1]
           new == [calls[c][w] EXCEPT !.given = Append(@, reply),
                                      !.mode = Clients!Drains(@, reply)]
<1>1. /\ calls \in [Client -> Seq(CallRecord)] /\ waiting \in [Client -> Nat]
      /\ taken \in [Client -> Nat] /\ down[c] \in Seq(Server!Reply)
      /\ waiting[c] <= Len(calls[c]) /\ Len(calls[c]) \in Nat /\ Len(down[c]) \in Nat
  BY DEF ServerInv, Types, WireTypes, CallTypes
<1>2. /\ w \in 1 .. Len(calls[c]) /\ taken[c] + 1 \in 1 .. Len(down[c])
      /\ taken'[c] = taken[c] + 1 /\ waiting'[c] = 0
  BY <1>1 DEF Clients!Receive
<1>3. reply \in Server!Reply /\ calls[c][w] \in CallRecord
  BY <1>1, <1>2
<1>4. calls[c][w].given \in Seq(Server!Reply)
  BY <1>3 DEF CallRecord
<1>5. Append(calls[c][w].given, reply) \in Seq(Server!Reply)
  BY <1>3, <1>4, ExtendsAppend
<1>6. Clients!Drains(calls[c][w].mode, reply) \in {calls[c][w].mode, "oneway"}
  BY DEF Clients!Drains
<1>7. /\ new \in CallRecord /\ new.request = calls[c][w].request
      /\ new.given = Append(calls[c][w].given, reply)
      /\ new.mode = Clients!Drains(calls[c][w].mode, reply)
  BY <1>3, <1>5, <1>6 DEF CallRecord
<1>8. calls' = [calls EXCEPT ![c] = [calls[c] EXCEPT ![w] = new]]
  BY <1>1, <1>2 DEF Clients!Receive
<1> HIDE DEF new, reply
<1>9. calls'[c] = [calls[c] EXCEPT ![w] = new]
  BY <1>1, <1>8
<1>10. /\ calls'[c] \in Seq(CallRecord) /\ Len(calls'[c]) = Len(calls[c])
       /\ calls'[c][w] = new
       /\ \A k \in 1 .. Len(calls[c]) : k # w => calls'[c][k] = calls[c][k]
  BY <1>1, <1>2, <1>7, <1>9
<1> QED BY <1>1, <1>2, <1>3, <1>7, <1>8, <1>9, <1>10 DEF reply

LEMMA ReceiveKeepsServer ==
  ASSUME ServerInv, NEW c \in Client, Clients!Receive(c), UNCHANGED serverVars
  PROVE  ServerInv'
<1>1. /\ taken' = [taken EXCEPT ![c] = @ + 1] /\ waiting' = [waiting EXCEPT ![c] = 0]
      /\ UNCHANGED <<up, down, gone, connected, broken>>
  BY DEF Clients!Receive, Clients!wireVars
<1>2. CallTypes'
  <2>1. /\ calls' \in [Client -> Seq(CallRecord)]
        /\ \A x \in Client : x # c => calls'[x] = calls[x]
    BY ReceiveGives DEF ServerInv, Types, CallTypes
  <2>2. \A k \in 1 .. Len(calls'[c]) :
           calls'[c][k].mode \in {calls'[c][k].request.mode, "oneway"}
    <3> TAKE k \in 1 .. Len(calls'[c])
    <3>1. k \in 1 .. Len(calls[c])
          /\ calls[c][k].mode \in {calls[c][k].request.mode, "oneway"}
      BY ReceiveGives DEF ServerInv, Types, CallTypes
    <3>2. CASE k = waiting[c]
      BY <3>1, <3>2, ReceiveGives DEF Clients!Drains
    <3>3. CASE k # waiting[c]
      BY <3>1, <3>3, ReceiveGives
    <3> QED BY <3>2, <3>3
  <2>3. \A x \in Client : \A k \in 1 .. Len(calls'[x]) :
           calls'[x][k].mode \in {calls'[x][k].request.mode, "oneway"}
    BY <2>1, <2>2 DEF ServerInv, Types, CallTypes
  <2>4. waiting' \in [Client -> Nat] /\ \A x \in Client : waiting'[x] <= Len(calls'[x])
    BY <1>1, <2>1, ReceiveGives DEF ServerInv, Types, CallTypes
  <2>5. taken' \in [Client -> Nat] /\ \A x \in Client : taken'[x] <= Len(down'[x])
    BY <1>1, ReceiveGives DEF ServerInv, Types, CallTypes
  <2> QED BY <1>1, <2>1, <2>3, <2>4, <2>5 DEF ServerInv, Types, CallTypes
<1>3. up' \in [Client -> Seq(Clients!Request)] /\ \A x \in Client : Extends(up[x], up'[x])
  BY <1>1, ExtendsItself DEF ServerInv, Types, WireTypes
<1>4. \A x \in Client : waiting'[x] # 0 => x \in connected
  BY <1>1 DEF ServerInv, Types, CallTypes, AdmissionInv
<1> QED BY <1>1, <1>2, <1>3, <1>4, ClientKeepsServer

\* A connection error, and a closure that is invoked, leave the calls alone.
LEMMA OthersKeepServer ==
  ASSUME ServerInv, NEW c \in Client, UNCHANGED serverVars,
         \/ Clients!CallFails(c) \/ Clients!ReceiveFails(c)
         \/ \E k \in DOMAIN calls[c] : Clients!Invoke(c, k)
  PROVE  ServerInv'
<1>1. UNCHANGED <<up, down, gone, connected, calls, taken>>
  BY DEF Clients!CallFails, Clients!ReceiveFails, Clients!Invoke, Clients!wireVars
<1>2. DOMAIN calls[c] = 1 .. Len(calls[c]) /\ Len(calls[c]) \in Nat
  BY DEF ServerInv, Types, CallTypes
<1>3. c \in connected
  BY DEF Clients!CallFails, Clients!ReceiveFails, Clients!Invoke, Clients!Usable,
     ServerInv, AdmissionInv
<1>4. broken' \in {broken, broken \cup {c}}
  BY DEF Clients!CallFails, Clients!ReceiveFails, Clients!Invoke, Clients!wireVars
<1>5. \E w \in 0 .. Len(calls[c]) : waiting' \in {waiting, [waiting EXCEPT ![c] = w]}
  BY <1>2 DEF Clients!CallFails, Clients!ReceiveFails, Clients!Invoke
<1>6. /\ waiting' \in [Client -> Nat]
      /\ \A x \in Client : /\ waiting'[x] <= Len(calls[x])
                           /\ waiting'[x] # 0 => x \in connected
  BY <1>2, <1>3, <1>5 DEF ServerInv, Types, CallTypes, AdmissionInv
<1>7. CallTypes'
  BY <1>1, <1>3, <1>4, <1>6 DEF ServerInv, Types, CallTypes
<1>8. up' \in [Client -> Seq(Clients!Request)] /\ \A x \in Client : Extends(up[x], up'[x])
  BY <1>1, ExtendsItself DEF ServerInv, Types, WireTypes
<1> QED BY <1>1, <1>6, <1>7, <1>8, ClientKeepsServer

LEMMA ServerStep == ServerInv /\ [Next]_vars => ServerInv'
<1> SUFFICES ASSUME ServerInv, [Next]_vars PROVE ServerInv'
  OBVIOUS
<1>1. CASE Server!Next /\ UNCHANGED clientVars
  BY <1>1, OwnerKeepsServer, AcceptKeepsServer, SessionKeepsServer DEF Server!Next
<1>2. ASSUME NEW c \in Client, Clients!Step(c), UNCHANGED serverVars PROVE ServerInv'
  BY <1>2, CallKeepsServer, ReceiveKeepsServer, OthersKeepServer DEF Clients!Step
<1>3. ASSUME NEW c \in Client, Connect(c) PROVE ServerInv'
  BY <1>3, ConnectKeepsServer
<1>4. CASE UNCHANGED vars
  <2>1. \A x \in Client : Extends(up[x], up'[x])
    BY <1>4, ExtendsItself DEF ServerInv, Types, WireTypes, vars
  <2>2. UNCHANGED <<serverVars, up, down, gone, connected, broken, calls, waiting, taken>>
    BY <1>4 DEF vars, clientVars
  <2>3. up' \in [Client -> Seq(Clients!Request)] /\ CallTypes'
    BY <2>2 DEF ServerInv, Types, WireTypes, CallTypes
  <2>4. \A x \in Client : waiting'[x] # 0 => x \in connected
    BY <2>2 DEF ServerInv, AdmissionInv
  <2> QED BY <2>1, <2>2, <2>3, <2>4, ClientKeepsServer
<1> QED BY <1>1, <1>2, <1>3, <1>4 DEF Next

LEMMA ServerStarts == Init => ServerInv
<1> SUFFICES ASSUME Init PROVE ServerInv
  OBVIOUS
<1> USE DEF Init, Server!Init, Clients!Init
<1>1. Types
  BY DEF Types, WireTypes, OwnerTypes, AcceptTypes, RegistryTypes, SessionTypes,
     CallTypes, Server!Phases, Server!Name, IsInjective
<1>2. RegistryInv /\ AdmissionInv
  BY ClientAssumption DEF RegistryInv, AdmissionInv, IsInjective, Range
<1>3. \A c \in Client : SessionInv(c)
  BY RepliesAssumption DEF SessionInv, ReplyInv, PhaseInv, InOrder, InCall
<1> QED BY <1>1, <1>2, <1>3 DEF ServerInv

\* The types, for any owner: a session has taken no more requests than there
\* are and replied no more often than it may, the registry has no name twice
\* and fits its storage, also after it was moved, and receive() has returned
\* no more replies than were sent.
THEOREM TypeCorrect == Spec => []TypeOK
<1>1. ServerInv => TypeOK
  <2> SUFFICES ASSUME ServerInv PROVE TypeOK
    OBVIOUS
  <2>1. Server!TypeOK
    <3>1. \A c \in Client : /\ handled[c] \in 0 .. Len(up[c]) /\ down[c] \in Seq(Server!Reply)
                            /\ sent[c] \in 0 .. MaxReplies
      BY SessionFacts, RepliesAssumption DEF SessionInv, PhaseInv
    <3> QED BY <3>1 DEF ServerInv, Types, OwnerTypes, AcceptTypes, RegistryTypes,
            SessionTypes, Server!TypeOK, IsInjective, Server!IsInjective
  <2>2. Clients!TypeOK(Server!Reply)
    <3>1. ASSUME NEW c \in Client, NEW k \in DOMAIN calls[c]
          PROVE  /\ calls[c][k].request \in Clients!Request
                 /\ calls[c][k].mode \in {calls[c][k].request.mode, "oneway"}
                 /\ calls[c][k].given \in Seq(Server!Reply)
      <4>1. calls[c] \in Seq(CallRecord) /\ k \in 1 .. Len(calls[c])
        BY <3>1 DEF ServerInv, Types, CallTypes
      <4>2. calls[c][k] \in CallRecord
        BY <4>1
      <4> QED BY <4>1, <4>2 DEF ServerInv, Types, CallTypes, CallRecord
    <3>2. \A c \in Client : waiting[c] \in 0 .. Len(calls[c]) /\ taken[c] \in 0 .. Len(down[c])
      BY DEF ServerInv, Types, CallTypes, WireTypes
    <3> QED BY <3>1, <3>2 DEF ServerInv, Types, CallTypes, WireTypes, Clients!TypeOK
  <2> QED BY <2>1, <2>2 DEF TypeOK
<1> QED BY <1>1, ServerStarts, ServerStep, PTL DEF Spec

-----------------------------------------------------------------------------
(* Whose replies a closure returns.                                        *)

\* The requests of a client are those of its calls.
Requested(c) == /\ Len(up[c]) = Len(calls[c])
                /\ \A k \in 1 .. Len(calls[c]) : calls[c][k].request = up[c][k]

\* What the closures have returned came over the connection, is the call's own,
\* and a closure is drained by a final reply.
Received(c) ==
    \A k \in 1 .. Len(calls[c]) : \A n \in 1 .. Len(calls[c][k].given) :
        \E i \in 1 .. taken[c] : calls[c][k].given[n] = down[c][i]

Own(c) ==
    \A k \in 1 .. Len(calls[c]) : \A n \in 1 .. Len(calls[c][k].given) :
        /\ calls[c][k].given[n].req = k /\ calls[c][k].given[n].n = n
        /\ n < Len(calls[c][k].given) => calls[c][k].given[n].continues

Drained(c) ==
    \A k \in 1 .. Len(calls[c]) :
        /\ Clients!Over(calls[c][k]) => calls[c][k].mode = "oneway"
        /\ k < Len(calls[c]) => Clients!Over(calls[c][k])

\* Only the last call has replies to come, and goes on where receive() is.
LastCallInv(c) ==
    LET last == calls[c][Len(calls[c])]
    IN  /\ \A i \in taken[c] + 1 .. Len(down[c]) : down[c][i].req = Len(calls[c])
        /\ calls[c] # <<>> =>
              IF last.given = <<>>
                THEN taken[c] > 0 => down[c][taken[c]].req < Len(calls[c])
                ELSE taken[c] > 0 /\ last.given[Len(last.given)] = down[c][taken[c]]
        /\ waiting[c] # 0 => /\ waiting[c] = Len(calls[c])
                              /\ calls[c][waiting[c]].mode # "oneway"

CallsInv(c) ==
    /\ Requested(c) /\ Received(c) /\ Own(c) /\ Drained(c) /\ LastCallInv(c)
    /\ \A i \in 1 .. Len(down[c]) : up[c][down[c][i].req].mode # "oneway"

LEMMA CallFacts ==
  ASSUME ServerInv, NEW c \in Client, CallsInv(c)
  PROVE  /\ up[c] \in Seq(Clients!Request) /\ Len(up[c]) \in Nat
         /\ down[c] \in Seq(Server!Reply) /\ Len(down[c]) \in Nat
         /\ calls[c] \in Seq(CallRecord) /\ Len(calls[c]) \in Nat
         /\ handled[c] \in Nat /\ taken[c] \in Nat /\ waiting[c] \in Nat
         /\ taken[c] <= Len(down[c]) /\ handled[c] <= Len(calls[c])
         /\ \A i \in 1 .. Len(down[c]) : down[c][i].req \in 1 .. handled[c]
         /\ \A k \in 1 .. Len(calls[c]) :
               /\ calls[c][k].given \in Seq(Server!Reply) /\ Len(calls[c][k].given) \in Nat
               /\ calls[c][k].request = up[c][k]
<1>1. /\ up[c] \in Seq(Clients!Request) /\ down[c] \in Seq(Server!Reply)
      /\ calls[c] \in Seq(CallRecord) /\ handled[c] \in Nat
      /\ taken[c] \in Nat /\ waiting[c] \in Nat /\ taken[c] <= Len(down[c])
  BY DEF ServerInv, Types, WireTypes, SessionTypes, CallTypes
<1>2. /\ handled[c] <= Len(up[c]) /\ Len(up[c]) = Len(calls[c])
      /\ \A i \in 1 .. Len(down[c]) : down[c][i].req \in 1 .. handled[c]
  BY SessionFacts DEF SessionInv, PhaseInv, ReplyInv, CallsInv, Requested
<1>3. \A k \in 1 .. Len(calls[c]) : calls[c][k] \in CallRecord
  BY <1>1
<1>4. \A k \in 1 .. Len(calls[c]) : calls[c][k].given \in Seq(Server!Reply)
  BY <1>3 DEF CallRecord
<1>5. \A k \in 1 .. Len(calls[c]) : /\ Len(calls[c][k].given) \in Nat
                                     /\ calls[c][k].request = up[c][k]
  BY <1>4 DEF CallsInv, Requested
<1>6. Len(up[c]) \in Nat /\ Len(down[c]) \in Nat /\ Len(calls[c]) \in Nat
  BY <1>1
<1> QED BY <1>1, <1>2, <1>4, <1>5, <1>6

LEMMA CallsFrame ==
  ASSUME NEW c \in Client, CallsInv(c),
         UNCHANGED <<up[c], down[c], calls[c], waiting[c], taken[c]>>
  PROVE  CallsInv(c)'
<1>1. Received(c)'
  BY DEF CallsInv, Received
<1>2. Own(c)' /\ Drained(c)'
  BY DEF CallsInv, Own, Drained, Clients!Over, Clients!Last
<1>3. Requested(c)' /\ LastCallInv(c)'
  BY DEF CallsInv, Requested, LastCallInv
<1> QED BY <1>1, <1>2, <1>3 DEF CallsInv

\* Whether every oneway call of a client is for what the service finds without
\* an added interface: an error would be sent to a call that expects no reply.
OnewayFound == \A request \in Clients!Request :
    request.mode = "oneway" => request.call = "GetInfo" \/ request.of = Server!Std

\* A session replies to the request it handles, and before its final reply.
MayReply(c, reply) ==
    /\ reply.req = handled[c] /\ handled[c] \in 1 .. Len(up[c])
    /\ up[c][handled[c]].mode # "oneway"
    /\ \A i \in 1 .. Len(down[c]) : down[c][i].req = handled[c] => down[c][i].continues

LEMMA SessionReplies ==
  ASSUME OnewayFound, ServerInv, NEW c \in Client, Server!SessionStep(c) \/ Server!Stream(c)
  PROVE  \/ down' = down
         \/ \E reply \in Server!Reply :
               down' = [down EXCEPT ![c] = Append(down[c], reply)] /\ MayReply(c, reply)
<1> DEFINE request == Server!Current(c)
           Goal == \/ down' = down
                   \/ \E reply \in Server!Reply :
                         /\ down' = [down EXCEPT ![c] = Append(down[c], reply)]
                         /\ MayReply(c, reply)
<1>1. ASSUME InCall(c) \/ session[c] = "streaming"
      PROVE  /\ handled[c] \in 1 .. Len(up[c]) /\ request = up[c][handled[c]]
             /\ request \in Clients!Request
             /\ \A i \in 1 .. Len(down[c]) : down[c][i].req = handled[c] => down[c][i].continues
  <2>1. handled[c] \in 1 .. Len(up[c])
    BY <1>1, SessionFacts DEF SessionInv, PhaseInv
  <2>2. \A i \in 1 .. Len(down[c]) : down[c][i].req \in 1 .. handled[c]
    BY SessionFacts DEF SessionInv, ReplyInv
  <2>3. \A i \in 1 .. Len(down[c]) : down[c][i].req = handled[c] => down[c][i].continues
    <3>1. CASE InCall(c)
      <4>1. \A i \in 1 .. Len(down[c]) : down[c][i].req < handled[c]
        BY <3>1, SessionFacts DEF SessionInv, PhaseInv
      <4> QED BY <2>1, <2>2, <4>1
    <3>2. CASE session[c] = "streaming"
      BY <3>2, SessionFacts DEF SessionInv, PhaseInv
    <3> QED BY <1>1, <3>1, <3>2
  <2> QED BY <2>1, <2>3, SessionFacts DEF Server!Current
<1>2. ASSUME NEW continues \in BOOLEAN, NEW error \in BOOLEAN,
             NEW known \in SUBSET Range(interfaces),
             Server!Replies(c, continues, error, known), request.mode # "oneway",
             InCall(c) \/ session[c] = "streaming"
      PROVE  Goal
  <2> DEFINE reply == [req |-> handled[c], n |-> sent[c] + 1, continues |-> continues,
                       error |-> error, known |-> known]
  <2>1. reply \in Server!Reply
    BY SessionFacts DEF Server!Reply
  <2>2. down' = [down EXCEPT ![c] = Append(down[c], reply)]
    BY <1>2 DEF Server!Replies
  <2>3. MayReply(c, reply)
    BY <1>1, <1>2 DEF MayReply
  <2> QED BY <2>1, <2>2, <2>3
<1>3. ASSUME NEW continues \in BOOLEAN, NEW known \in SUBSET Range(interfaces),
             Server!Answers(c, continues, known), InCall(c) \/ session[c] = "streaming"
      PROVE  Goal
  BY <1>2, <1>3 DEF Server!Answers
<1>4. ASSUME Server!RepliesError(c), InCall(c), request.mode # "oneway" PROVE Goal
  BY <1>2, <1>4 DEF Server!RepliesError
<1>5. ASSUME InCall(c), request.mode = "oneway"
      PROVE  /\ session[c] # "missing" /\ Server!Found(c)
             /\ request.call # "GetInfo" => request.of \in Range(interfaces)
  <2>1. request.call = "GetInfo" \/ request.of = Server!Std
    BY <1>1, <1>5 DEF OnewayFound
  <2> QED BY <1>5, <2>1, StdFound
<1>6. CASE Server!Dispatch(c) \/ Server!Search(c)
  BY <1>6 DEF Server!Dispatch, Server!Search
<1>7. CASE Server!NotFound(c)
  BY <1>4, <1>5, <1>7 DEF Server!NotFound, InCall
<1>8. CASE Server!Execute(c)
  <2> DEFINE known == IF request.call = "GetInfo" THEN Range(interfaces) ELSE {request.of}
  <2>1. /\ InCall(c)
        /\ \/ /\ known \subseteq Range(interfaces)
              /\ Server!Answers(c, FALSE, known) \/ Server!Answers(c, TRUE, known)
           \/ /\ Server!Entry(c) # Server!Target(request) \/ ~(known \subseteq Range(interfaces))
              /\ Server!RepliesError(c)
    BY <1>8 DEF Server!Execute, Server!Range, Range, InCall
  <2>2. ASSUME known \subseteq Range(interfaces),
               Server!Answers(c, FALSE, known) \/ Server!Answers(c, TRUE, known)
        PROVE  Goal
    <3>1. known \in SUBSET Range(interfaces)
      BY <2>2
    <3> HIDE DEF known
    <3> QED BY <1>3, <2>1, <2>2, <3>1
  <2>3. ASSUME Server!Entry(c) # Server!Target(request) \/ ~(known \subseteq Range(interfaces)),
               Server!RepliesError(c)
        PROVE  Goal
    <3>1. request.mode # "oneway"
      BY <1>5, <2>1, <2>3 DEF Server!Entry
    <3> QED BY <1>4, <2>1, <2>3, <3>1
  <2> QED BY <2>1, <2>2, <2>3
<1>9. CASE Server!Stream(c) \/ Server!EndStream(c)
  <2>1. session[c] = "streaming" /\ {request.of} \in SUBSET Range(interfaces)
    BY <1>9, SessionFacts DEF Server!Stream, Server!EndStream, SessionInv, PhaseInv
  <2> QED BY <1>3, <1>9, <2>1 DEF Server!Stream, Server!EndStream
<1> QED BY <1>6, <1>7, <1>8, <1>9 DEF Server!SessionStep

\* A reply that is written belongs to the last call of the client.
LEMMA ReplyKeepsCalls ==
  ASSUME ServerInv, NEW c \in Client, CallsInv(c), NEW reply \in Server!Reply,
         MayReply(c, reply), Extends(down[c], down'[c]),
         Len(down'[c]) = Len(down[c]) + 1, down'[c][Len(down[c]) + 1] = reply,
         UNCHANGED <<up[c], calls[c], waiting[c], taken[c]>>
  PROVE  CallsInv(c)'
<1>1. \A i \in 1 .. Len(down[c]) : down'[c][i] = down[c][i]
  BY DEF Extends
<1>2. \A i \in 1 .. Len(down[c]) + 1 : i \in 1 .. Len(down[c]) \/ i = Len(down[c]) + 1
  BY CallFacts
<1>3. handled[c] = Len(calls[c])
  <2> SUFFICES ASSUME handled[c] # Len(calls[c]) PROVE FALSE
    OBVIOUS
  <2> DEFINE call == calls[c][handled[c]]
             m == Len(call.given)
  <2>1. handled[c] \in 1 .. Len(calls[c]) /\ handled[c] < Len(calls[c])
    BY CallFacts DEF MayReply
  <2>2. Clients!Over(call)
    BY <2>1 DEF CallsInv, Drained
  <2>3. call.request.mode # "oneway"
    BY <2>1, CallFacts DEF MayReply
  <2>4. call.given # <<>> /\ ~call.given[m].continues
    BY <2>2, <2>3 DEF Clients!Over, Clients!Last
  <2>5. m \in 1 .. Len(call.given)
    BY <2>1, <2>4, CallFacts
  <2>6. call.given[m].req = handled[c] /\ \E i \in 1 .. taken[c] : call.given[m] = down[c][i]
    BY <2>1, <2>5 DEF CallsInv, Own, Received
  <2>7. \E i \in 1 .. Len(down[c]) : call.given[m] = down[c][i]
    BY <2>6, CallFacts
  <2> QED BY <2>4, <2>6, <2>7 DEF MayReply
<1>4. Received(c)'
  <2>1. \A i \in 1 .. taken[c] : down'[c][i] = down[c][i]
    BY <1>1, CallFacts
  <2>2. ASSUME NEW k \in 1 .. Len(calls[c]), NEW n \in 1 .. Len(calls[c][k].given)
        PROVE  \E i \in 1 .. taken[c] : calls[c][k].given[n] = down'[c][i]
    <3>1. PICK i \in 1 .. taken[c] : calls[c][k].given[n] = down[c][i]
      BY DEF CallsInv, Received
    <3> QED BY <2>1, <3>1
  <2> QED BY <2>2 DEF Received
<1>5. LastCallInv(c)'
  <2>1. \A i \in taken[c] + 1 .. Len(down'[c]) : down'[c][i].req = Len(calls[c])
    <3> TAKE i \in taken[c] + 1 .. Len(down'[c])
    <3>1. i \in 1 .. Len(down[c]) + 1
      BY <1>1, CallFacts
    <3>2. CASE i \in 1 .. Len(down[c])
      <4>1. i \in taken[c] + 1 .. Len(down[c])
        BY <3>2, CallFacts
      <4> QED BY <1>1, <3>2, <4>1 DEF CallsInv, LastCallInv
    <3>3. CASE i = Len(down[c]) + 1
      BY <1>1, <1>3, <3>3 DEF MayReply
    <3> QED BY <1>2, <3>1, <3>2, <3>3
  <2>2. taken[c] > 0 => down'[c][taken[c]] = down[c][taken[c]]
    BY <1>1, CallFacts
  <2> QED BY <2>1, <2>2 DEF CallsInv, LastCallInv
<1>6. \A i \in 1 .. Len(down'[c]) : up[c][down'[c][i].req].mode # "oneway"
  BY <1>1, <1>2 DEF CallsInv, MayReply
<1>7. Requested(c)'
  BY <1>2 DEF CallsInv, Requested
<1>8. Own(c)' /\ Drained(c)'
  <2>1. calls'[c] = calls[c] /\ Own(c) /\ Drained(c)
    BY DEF CallsInv
  <2>2. Own(c)'
    BY <2>1 DEF Own
  <2>3. Drained(c)'
    BY <2>1 DEF Drained, Clients!Over, Clients!Last
  <2> QED BY <2>2, <2>3
<1> QED BY <1>4, <1>5, <1>6, <1>7, <1>8 DEF CallsInv

\* A call is made when no reply to the last one is to come.
LEMMA CallKeepsCalls ==
  ASSUME ServerInv, NEW c \in Client, CallsInv(c), NEW request \in Asks[c],
         Clients!Call(c, request)
  PROVE  CallsInv(c)'
<1> DEFINE K == Len(calls[c])
           call == [request |-> request, mode |-> request.mode, given |-> <<>>]
<1>1. /\ request \in Clients!Request /\ call \in CallRecord
  BY DEF Clients!Request, CallRecord
<1>2. /\ calls'[c] = Append(calls[c], call) /\ up'[c] = Append(up[c], request)
      /\ waiting'[c] = (IF request.mode \in {"basic", "upgrade"} THEN Len(calls'[c]) ELSE 0)
      /\ calls[c] # <<>> => Clients!Over(calls[c][K])
      /\ UNCHANGED <<down, taken>>
  BY DEF Clients!Call, Clients!Last, ServerInv, Types, WireTypes, CallTypes
<1>3. /\ Len(calls'[c]) = K + 1 /\ calls'[c][K + 1] = call
      /\ \A k \in 1 .. K : calls'[c][k] = calls[c][k]
      /\ calls'[c] \in Seq(CallRecord)
  BY <1>1, <1>2, CallFacts, ExtendsAppend DEF Extends
<1>4. /\ Len(up'[c]) = K + 1 /\ up'[c][K + 1] = request
      /\ \A k \in 1 .. K : up'[c][k] = up[c][k]
  BY <1>1, <1>2, CallFacts, ExtendsAppend DEF Extends, CallsInv, Requested
<1>5. K \in Nat /\ \A k \in 1 .. K + 1 : k \in 1 .. K \/ k = K + 1
  BY CallFacts
<1>6. \A i \in 1 .. Len(down[c]) : down[c][i].req \in 1 .. K
  BY CallFacts
<1>7. taken[c] = Len(down[c])
  <2> SUFFICES ASSUME taken[c] # Len(down[c]) PROVE FALSE
    OBVIOUS
  <2> DEFINE t == taken[c]
  <2>1. t + 1 \in 1 .. Len(down[c]) /\ t + 1 \in t + 1 .. Len(down[c])
    BY CallFacts
  <2>2. down[c][t + 1].req = K
    BY <2>1 DEF CallsInv, LastCallInv
  <2>3. K \in 1 .. K /\ up[c][K].mode # "oneway"
    BY <1>6, <2>1, <2>2 DEF CallsInv
  <2>4. calls[c] # <<>> /\ Clients!Over(calls[c][K]) /\ calls[c][K].request = up[c][K]
    <3>1. calls[c] # <<>>
      BY <2>3, CallFacts
    <3>2. calls[c][K].request = up[c][K]
      BY <2>3, CallFacts
    <3> QED BY <1>2, <3>1, <3>2
  <2>5. /\ calls[c][K].given # <<>>
        /\ ~calls[c][K].given[Len(calls[c][K].given)].continues
    BY <2>3, <2>4 DEF Clients!Over, Clients!Last
  <2>6. t > 0 /\ ~down[c][t].continues
    BY <2>4, <2>5 DEF CallsInv, LastCallInv
  <2>7. t \in 1 .. Len(down[c]) - 1 /\ t \in 1 .. Len(down[c])
    BY <2>1, <2>6, CallFacts
  <2>8. Follows(down[c][t], down[c][t + 1])
    BY <2>7, SessionFacts DEF SessionInv, ReplyInv, InOrder
  <2>9. \E k \in 1 .. Len(calls[c][K].given) : calls[c][K].given[k] = down[c][t]
    <3>1. Len(calls[c][K].given) \in 1 .. Len(calls[c][K].given)
      BY <2>3, <2>5, CallFacts
    <3>2. calls[c][K].given[Len(calls[c][K].given)] = down[c][t]
      BY <2>4, <2>5 DEF CallsInv, LastCallInv
    <3> QED BY <3>1, <3>2
  <2>10. down[c][t].req = K
    <3>1. PICK k \in 1 .. Len(calls[c][K].given) : calls[c][K].given[k] = down[c][t]
      BY <2>9
    <3>2. Own(c) /\ K \in 1 .. Len(calls[c])
      BY <2>3 DEF CallsInv
    <3> HIDE DEF K
    <3>3. calls[c][K].given[k].req = K
      BY <3>1, <3>2 DEF Own
    <3> QED BY <3>1, <3>3
  <2>11. down[c][t + 1].req > down[c][t].req
    BY <2>6, <2>8 DEF Follows
  <2> QED BY <1>5, <2>2, <2>10, <2>11
<1>8. Requested(c)'
  <2>1. \A k \in 1 .. K : calls[c][k].request = up[c][k]
    BY CallFacts
  <2>2. call.request = request
    OBVIOUS
  <2> HIDE DEF call
  <2>3. \A k \in 1 .. K + 1 : calls'[c][k].request = up'[c][k]
    BY <1>3, <1>4, <1>5, <2>1, <2>2
  <2> QED BY <1>3, <1>4, <2>3, Zenon DEF Requested
<1>9. Received(c)'
  <2>1. ASSUME NEW k \in 1 .. K, NEW n \in 1 .. Len(calls[c][k].given)
        PROVE  \E i \in 1 .. taken[c] : calls[c][k].given[n] = down[c][i]
    BY DEF CallsInv, Received
  <2>2. call.given = <<>> /\ Len(call.given) = 0
    OBVIOUS
  <2> HIDE DEF call
  <2>3. ASSUME NEW k \in 1 .. K + 1, NEW n \in 1 .. Len(calls'[c][k].given)
        PROVE  \E i \in 1 .. taken[c] : calls'[c][k].given[n] = down[c][i]
    <3>1. CASE k \in 1 .. K
      <4>1. calls'[c][k] = calls[c][k]
        BY <1>3, <3>1
      <4>2. n \in 1 .. Len(calls[c][k].given)
        BY <2>3, <4>1
      <4> QED BY <2>1, <3>1, <4>1, <4>2
    <3>2. CASE k = K + 1
      <4>1. Len(calls'[c][k].given) = 0
        BY <1>3, <2>2, <3>2
      <4> QED BY <2>3, <4>1
    <3> QED BY <1>5, <3>1, <3>2
  <2>4. Len(calls'[c]) = K + 1 /\ taken' = taken /\ down' = down
    BY <1>2, <1>3
  <2> HIDE DEF K
  <2>5. \A k \in 1 .. Len(calls'[c]) : \A n \in 1 .. Len(calls'[c][k].given) :
           \E i \in 1 .. taken'[c] : calls'[c][k].given[n] = down'[c][i]
    BY <2>3, <2>4
  <2> QED BY <2>5, Zenon DEF Received
<1>10. Own(c)' /\ Drained(c)'
  <2>1. call.given = <<>> /\ Len(call.given) = 0 /\ call.request = request
        /\ call.mode = request.mode
    OBVIOUS
  <2>2. Clients!Over(call) => call.mode = "oneway"
    BY <2>1 DEF Clients!Over
  <2> HIDE DEF call
  <2>3. Own(c)'
    <3> SUFFICES ASSUME NEW k \in 1 .. K + 1, NEW n \in 1 .. Len(calls'[c][k].given)
                 PROVE  /\ calls'[c][k].given[n].req = k /\ calls'[c][k].given[n].n = n
                        /\ n < Len(calls'[c][k].given) => calls'[c][k].given[n].continues
      BY <1>3, Zenon DEF Own
    <3>1. CASE k \in 1 .. K
      <4>1. calls'[c][k] = calls[c][k]
        BY <1>3, <3>1
      <4>2. n \in 1 .. Len(calls[c][k].given) /\ k \in 1 .. Len(calls[c])
        BY <3>1, <4>1
      <4>3. /\ calls[c][k].given[n].req = k /\ calls[c][k].given[n].n = n
            /\ n < Len(calls[c][k].given) => calls[c][k].given[n].continues
        BY <4>2, Zenon DEF CallsInv, Own
      <4> QED BY <4>1, <4>3, Zenon
    <3>2. CASE k = K + 1
      BY <1>3, <2>1, <3>2
    <3> QED BY <1>5, <3>1, <3>2
  <2>4. Drained(c)'
    <3> SUFFICES ASSUME NEW k \in 1 .. K + 1
                 PROVE  /\ Clients!Over(calls'[c][k]) => calls'[c][k].mode = "oneway"
                        /\ k < K + 1 => Clients!Over(calls'[c][k])
      BY <1>3, Zenon DEF Drained, Clients!Over, Clients!Last
    <3>1. CASE k \in 1 .. K
      <4>1. calls'[c][k] = calls[c][k]
        BY <1>3, <3>1
      <4>2. Clients!Over(calls[c][k]) => calls[c][k].mode = "oneway"
        BY <3>1 DEF CallsInv, Drained
      <4>3. Clients!Over(calls[c][k])
        <5>1. CASE k < K
          BY <3>1, <5>1 DEF CallsInv, Drained
        <5>2. CASE k = K
          BY <1>2, <3>1, <5>2
        <5> QED BY <3>1, <5>1, <5>2, <1>5
      <4> QED BY <4>1, <4>2, <4>3
    <3>2. CASE k = K + 1
      BY <1>3, <1>5, <2>2, <3>2
    <3> QED BY <1>5, <3>1, <3>2
  <2> QED BY <2>3, <2>4
<1>11. LastCallInv(c)'
  <2>1. call.given = <<>> /\ call.mode = request.mode
    OBVIOUS
  <2> HIDE DEF call
  <2>2. \A i \in taken[c] + 1 .. Len(down[c]) : FALSE
    BY <1>7, CallFacts
  <2>3. taken[c] > 0 => down[c][taken[c]].req < K + 1
    BY <1>6, <1>7, CallFacts
  <2>4. waiting'[c] # 0 => waiting'[c] = K + 1 /\ calls'[c][K + 1].mode # "oneway"
    BY <1>2, <1>3, <2>1
  <2> QED BY <1>2, <1>3, <2>1, <2>2, <2>3, <2>4 DEF LastCallInv
<1>12. \A i \in 1 .. Len(down[c]) : up'[c][down[c][i].req].mode # "oneway"
  BY <1>4, <1>6 DEF CallsInv
<1> QED BY <1>2, <1>8, <1>9, <1>10, <1>11, <1>12 DEF CallsInv

\* A reply that is received is the next one to the last call.
LEMMA ReceiveKeepsCalls ==
  ASSUME ServerInv, NEW c \in Client, CallsInv(c), Clients!Receive(c)
  PROVE  CallsInv(c)'
<1> DEFINE K == Len(calls[c])
           t == taken[c]
           reply == down[c][t + 1]
           given == calls[c][K].given
<1>1. /\ waiting[c] = K /\ K \in 1 .. K /\ calls[c][K].mode # "oneway"
      /\ K \in Nat /\ t \in Nat /\ t + 1 \in 1 .. Len(down[c]) /\ calls[c] # <<>>
      /\ given \in Seq(Server!Reply) /\ Len(given) \in Nat /\ reply \in Server!Reply
  <2>1. /\ waiting[c] \in 1 .. K /\ K \in Nat /\ t \in Nat /\ t + 1 \in 1 .. Len(down[c])
        /\ reply \in Server!Reply
    BY ReceiveGives
  <2>2. waiting[c] = K /\ calls[c][waiting[c]].mode # "oneway"
    BY <2>1 DEF CallsInv, LastCallInv
  <2>3. K \in 1 .. K /\ calls[c][K].mode # "oneway"
    BY <2>1, <2>2
  <2>4. given \in Seq(Server!Reply) /\ Len(given) \in Nat
    BY <2>3, CallFacts
  <2>5. calls[c] # <<>>
    BY <2>1
  <2> QED BY <2>1, <2>2, <2>3, <2>4, <2>5
<1>2. UNCHANGED <<up, down>>
  BY DEF Clients!Receive, Clients!wireVars
<1>3. /\ taken'[c] = t + 1 /\ waiting'[c] = 0 /\ Len(calls'[c]) = K
      /\ calls'[c][K].request = calls[c][K].request
      /\ calls'[c][K].given = Append(given, reply)
      /\ calls'[c][K].mode = Clients!Drains(calls[c][K].mode, reply)
      /\ \A k \in 1 .. K : k # K => calls'[c][k] = calls[c][k]
  BY <1>1, ReceiveGives
<1>4. /\ Len(calls'[c][K].given) = Len(given) + 1
      /\ calls'[c][K].given[Len(given) + 1] = reply
      /\ \A n \in 1 .. Len(given) : calls'[c][K].given[n] = given[n]
  <2>1. /\ Len(Append(given, reply)) = Len(given) + 1
        /\ Append(given, reply)[Len(given) + 1] = reply
        /\ \A n \in 1 .. Len(given) : Append(given, reply)[n] = given[n]
    <3>1. given \in Seq(Server!Reply) /\ reply \in Server!Reply
      BY <1>1
    <3> HIDE DEF given, reply
    <3> QED BY <3>1, ExtendsAppend DEF Extends
  <2>2. calls'[c][K].given = Append(given, reply)
    BY <1>3
  <2> QED BY <2>1, <2>2, Zenon
<1>5. reply.req = K
  <2>1. t + 1 \in taken[c] + 1 .. Len(down[c])
    BY <1>1
  <2> QED BY <2>1 DEF CallsInv, LastCallInv
<1>6. ~Clients!Over(calls[c][K])
  BY <1>1 DEF CallsInv, Drained
<1>7. /\ given # <<>> => given[Len(given)].continues
      /\ calls[c][K].request.mode # "oneway"
  BY <1>6 DEF Clients!Over, Clients!Last
<1>8. t > 0 => t \in 1 .. Len(down[c]) /\ Follows(down[c][t], reply)
  <2> HAVE t > 0
  <2>1. t \in 1 .. Len(down[c]) - 1 /\ t \in 1 .. Len(down[c])
    BY <1>1, CallFacts
  <2> QED BY <2>1, SessionFacts DEF SessionInv, ReplyInv, InOrder
<1>9. reply.n = Len(given) + 1
  <2>1. CASE given = <<>>
    <3>1. CASE t = 0
      <4>1. down[c] # <<>> /\ reply = down[c][1] /\ Len(given) = 0
        BY <1>1, <2>1, <3>1, CallFacts
      <4> QED BY <4>1, SessionFacts DEF SessionInv, ReplyInv, InOrder
    <3>2. CASE t > 0
      <4>1. down[c][t].req < K
        BY <1>1, <2>1, <3>2 DEF CallsInv, LastCallInv
      <4>2. down[c][t].req \in Nat /\ Len(given) = 0
        BY <1>8, <2>1, <3>2, CallFacts
      <4> QED BY <1>1, <1>5, <1>8, <3>2, <4>1, <4>2 DEF Follows
    <3> QED BY <1>1, <3>1, <3>2
  <2>2. CASE given # <<>>
    <3>1. Len(given) \in 1 .. Len(given)
      BY <1>1, <2>2
    <3>2. given[Len(given)].n = Len(given)
      BY <1>1, <3>1 DEF CallsInv, Own
    <3>3. t > 0 /\ given[Len(given)] = down[c][t]
      BY <1>1, <2>2 DEF CallsInv, LastCallInv
    <3> QED BY <1>7, <1>8, <2>2, <3>2, <3>3 DEF Follows
  <2> QED BY <2>1, <2>2
<1>10. \A n \in 1 .. Len(given) + 1 : n \in 1 .. Len(given) \/ n = Len(given) + 1
  BY <1>1
<1>11. Requested(c)'
  BY <1>2, <1>3 DEF CallsInv, Requested
<1>12. Received(c)'
  <2> SUFFICES ASSUME NEW k \in 1 .. Len(calls'[c]), NEW n \in 1 .. Len(calls'[c][k].given)
               PROVE  \E i \in 1 .. taken'[c] : calls'[c][k].given[n] = down'[c][i]
    BY Zenon DEF Received
  <2>7. k \in 1 .. K /\ taken'[c] = t + 1 /\ down' = down
    BY <1>2, <1>3
  <2>1. \A i \in 1 .. t : i \in 1 .. t + 1
    BY <1>1
  <2>2. t + 1 \in 1 .. t + 1
    BY <1>1
  <2>3. \A m \in 1 .. Len(calls[c][k].given) :
           \E i \in 1 .. t : calls[c][k].given[m] = down[c][i]
    BY <2>7 DEF CallsInv, Received
  <2>4. CASE k # K
    <3>1. calls'[c][k] = calls[c][k]
      BY <1>3, <2>4, <2>7
    <3>2. PICK i \in 1 .. t : calls[c][k].given[n] = down[c][i]
      BY <2>3, <3>1
    <3> QED BY <2>1, <2>7, <3>1, <3>2
  <2>5. CASE k = K /\ n \in 1 .. Len(given)
    <3>1. PICK i \in 1 .. t : given[n] = down[c][i]
      BY <2>3, <2>5
    <3>2. calls'[c][k].given[n] = given[n]
      BY <1>4, <2>5
    <3> QED BY <2>1, <2>7, <3>1, <3>2
  <2>6. CASE k = K /\ n = Len(given) + 1
    <3>1. calls'[c][k].given[n] = down[c][t + 1]
      BY <1>4, <2>6
    <3> QED BY <2>2, <2>7, <3>1
  <2>8. k = K => n \in 1 .. Len(given) \/ n = Len(given) + 1
    BY <1>4, <1>10
  <2> QED BY <2>4, <2>5, <2>6, <2>8
<1>13. Own(c)'
  <2> SUFFICES ASSUME NEW k \in 1 .. K, NEW n \in 1 .. Len(calls'[c][k].given)
               PROVE  /\ calls'[c][k].given[n].req = k /\ calls'[c][k].given[n].n = n
                      /\ n < Len(calls'[c][k].given) => calls'[c][k].given[n].continues
    BY <1>3, Zenon DEF Own
  <2>1. CASE k # K
    <3>1. calls'[c][k] = calls[c][k]
      BY <1>3, <2>1
    <3>2. n \in 1 .. Len(calls[c][k].given)
      BY <3>1
    <3>3. /\ calls[c][k].given[n].req = k /\ calls[c][k].given[n].n = n
          /\ n < Len(calls[c][k].given) => calls[c][k].given[n].continues
      BY <3>2, Zenon DEF CallsInv, Own
    <3> QED BY <3>1, <3>3, Zenon
  <2>2. CASE k = K /\ n \in 1 .. Len(given)
    <3>1. given[n].req = K /\ given[n].n = n /\ (n < Len(given) => given[n].continues)
      BY <1>1, <2>2 DEF CallsInv, Own
    <3>2. given[n].continues
      <4>1. n = Len(given) => given # <<>>
        BY <2>2
      <4> QED BY <1>1, <1>7, <2>2, <3>1, <4>1
    <3> QED BY <1>4, <2>2, <3>1, <3>2
  <2>3. CASE k = K /\ n = Len(given) + 1
    <3>1. calls'[c][K].given[n] = reply /\ Len(calls'[c][K].given) = n
      BY <1>4, <2>3
    <3>2. ~(n < n)
      BY <1>1, <2>3
    <3> HIDE DEF reply, given
    <3> QED BY <1>5, <1>9, <2>3, <3>1, <3>2
  <2> QED BY <1>4, <1>10, <2>1, <2>2, <2>3
<1>14. Drained(c)'
  <2> SUFFICES ASSUME NEW k \in 1 .. K
               PROVE  /\ Clients!Over(calls'[c][k]) => calls'[c][k].mode = "oneway"
                      /\ k < K => Clients!Over(calls'[c][k])
    BY <1>3, Zenon DEF Drained, Clients!Over, Clients!Last
  <2>1. CASE k # K
    BY <1>3, <2>1 DEF CallsInv, Drained
  <2>2. CASE k = K
    <3>1. Clients!Over(calls'[c][K]) => ~reply.continues
      BY <1>3, <1>4, <1>7 DEF Clients!Over, Clients!Last
    <3>2. ~reply.continues => calls'[c][K].mode = "oneway"
      BY <1>3 DEF Clients!Drains
    <3>3. ~(k < K)
      BY <1>1, <2>2
    <3> HIDE DEF K, reply
    <3> QED BY <2>2, <3>1, <3>2, <3>3
  <2> QED BY <2>1, <2>2
<1>15. LastCallInv(c)'
  <2>1. \A i \in t + 2 .. Len(down[c]) : down[c][i].req = K
    <3>1. \A i \in t + 2 .. Len(down[c]) : i \in t + 1 .. Len(down[c])
      BY <1>1
    <3> QED BY <3>1 DEF CallsInv, LastCallInv
  <2>2. calls'[c][K].given # <<>>
    BY <1>1, <1>4
  <2>3. calls'[c][K].given[Len(calls'[c][K].given)] = down'[c][taken'[c]]
    BY <1>2, <1>3, <1>4
  <2>4. taken'[c] > 0 /\ taken'[c] + 1 = t + 2
    BY <1>1, <1>3
  <2> QED BY <1>2, <1>3, <2>1, <2>2, <2>3, <2>4 DEF LastCallInv
<1> QED BY <1>2, <1>11, <1>12, <1>13, <1>14, <1>15 DEF CallsInv

\* A closure that is invoked again is the last one, or is drained.
LEMMA OthersKeepCalls ==
  ASSUME ServerInv, NEW c \in Client, CallsInv(c),
         \/ Clients!CallFails(c) \/ Clients!ReceiveFails(c)
         \/ \E k \in DOMAIN calls[c] : Clients!Invoke(c, k)
  PROVE  CallsInv(c)'
<1>1. UNCHANGED <<up, down, calls, taken>>
  BY DEF Clients!CallFails, Clients!ReceiveFails, Clients!Invoke, Clients!wireVars
<1>2. waiting \in [Client -> Nat] /\ DOMAIN calls[c] = 1 .. Len(calls[c])
      /\ Len(calls[c]) \in Nat
  BY DEF ServerInv, Types, CallTypes
<1>3. waiting'[c] # 0 => /\ waiting'[c] = Len(calls[c])
                         /\ calls[c][waiting'[c]].mode # "oneway"
  <2>1. CASE Clients!CallFails(c) \/ Clients!ReceiveFails(c)
    BY <1>2, <2>1 DEF Clients!CallFails, Clients!ReceiveFails, CallsInv, LastCallInv
  <2>2. ASSUME NEW k \in DOMAIN calls[c], Clients!Invoke(c, k)
        PROVE  waiting'[c] = Len(calls[c]) /\ calls[c][waiting'[c]].mode # "oneway"
    <3>1. waiting'[c] = k /\ calls[c][k].mode # "oneway" /\ k \in 1 .. Len(calls[c])
      BY <1>2, <2>2 DEF Clients!Invoke
    <3>2. ~(k < Len(calls[c]))
      BY <3>1 DEF CallsInv, Drained
    <3> QED BY <1>2, <3>1, <3>2
  <2> QED BY <2>1, <2>2
<1>4. Received(c)' /\ Own(c)' /\ Requested(c)'
  BY <1>1 DEF CallsInv, Received, Own, Requested
<1>5. Drained(c)'
  BY <1>1 DEF CallsInv, Drained, Clients!Over, Clients!Last
<1>6. LastCallInv(c)'
  BY <1>1, <1>3 DEF CallsInv, LastCallInv
<1> QED BY <1>1, <1>4, <1>5, <1>6 DEF CallsInv

AllCalls == \A c \in Client : CallsInv(c)

LEMMA CallsStep ==
  ASSUME OnewayFound
  PROVE  ServerInv /\ AllCalls /\ [Next]_vars => AllCalls'
<1> SUFFICES ASSUME ServerInv, AllCalls, [Next]_vars PROVE AllCalls'
  OBVIOUS
<1>1. \A c \in Client : CallsInv(c)
  BY DEF AllCalls
<1>2. ASSUME UNCHANGED <<up, down, calls, waiting, taken>> PROVE AllCalls'
  BY <1>1, <1>2, CallsFrame DEF AllCalls
<1>3. CASE (Server!OwnerStep \/ Server!AcceptStep \/ Server!AcceptFails) /\ UNCHANGED clientVars
  <2>1. UNCHANGED <<up, down>>
    BY <1>3 DEF Server!OwnerStep, Server!Construct, Server!AddInterface, Server!AddMoves,
       Server!AddPublishes, Server!Stop, Server!Join, Server!DestroyServer,
       Server!DestroyService, Server!DestroyPool, Server!AcceptStep, Server!RunPosted,
       Server!AcceptCompletes, Server!HandleAccept, Server!AcceptFails
  <2> QED BY <1>2, <1>3, <2>1 DEF clientVars
<1>4. ASSUME NEW c \in Client, Server!SessionStep(c) \/ Server!Stream(c), UNCHANGED clientVars
      PROVE  AllCalls'
  <2>1. UNCHANGED <<up, calls, waiting, taken>>
    BY <1>4 DEF clientVars, Server!SessionStep, Server!Dispatch, Server!Search,
       Server!NotFound, Server!RepliesError, Server!Execute, Server!Stream,
       Server!EndStream, Server!Answers, Server!Replies
  <2>2. CASE down' = down
    BY <1>2, <2>1, <2>2
  <2>3. ASSUME NEW reply \in Server!Reply, MayReply(c, reply),
               down' = [down EXCEPT ![c] = Append(down[c], reply)]
        PROVE  AllCalls'
    <3>1. down'[c] = Append(down[c], reply) /\ \A x \in Client : x # c => down'[x] = down[x]
      BY <2>3 DEF ServerInv, Types, WireTypes
    <3>2. /\ Extends(down[c], down'[c]) /\ Len(down'[c]) = Len(down[c]) + 1
          /\ down'[c][Len(down[c]) + 1] = reply
      BY <3>1, SessionFacts, ExtendsAppend
    <3>3. CallsInv(c)'
      BY <1>1, <2>1, <2>3, <3>2, ReplyKeepsCalls
    <3>4. ASSUME NEW x \in Client, x # c PROVE CallsInv(x)'
      BY <1>1, <2>1, <3>1, <3>4, CallsFrame
    <3> QED BY <3>3, <3>4 DEF AllCalls
  <2> QED BY <1>4, <2>2, <2>3, SessionReplies
<1>5. ASSUME NEW c \in Client, Clients!Step(c), UNCHANGED serverVars PROVE AllCalls'
  <2>1. CallsInv(c)'
    BY <1>1, <1>5, CallKeepsCalls, ReceiveKeepsCalls, OthersKeepCalls DEF Clients!Step
  <2>2. ASSUME NEW x \in Client, x # c PROVE CallsInv(x)'
    <3>1. UNCHANGED <<up[x], down[x], calls[x], waiting[x], taken[x]>>
      <4>1. CASE \E request \in Asks[c] : Clients!Call(c, request)
        BY <2>2, <4>1 DEF Clients!Call, ServerInv, Types, WireTypes, CallTypes
      <4>2. CASE Clients!Receive(c)
        <5>1. calls'[x] = calls[x]
          BY <2>2, <4>2, ReceiveGives DEF ServerInv, Types, CallTypes
        <5> QED BY <2>2, <4>2, <5>1
                DEF Clients!Receive, Clients!wireVars, ServerInv, Types, CallTypes
      <4>3. CASE \/ Clients!CallFails(c) \/ Clients!ReceiveFails(c)
                 \/ \E k \in DOMAIN calls[c] : Clients!Invoke(c, k)
        BY <2>2, <4>3 DEF Clients!CallFails, Clients!ReceiveFails, Clients!Invoke,
           Clients!wireVars, ServerInv, Types, CallTypes
      <4> QED BY <1>5, <4>1, <4>2, <4>3 DEF Clients!Step
    <3> QED BY <1>1, <3>1, CallsFrame
  <2> QED BY <2>1, <2>2 DEF AllCalls
<1>6. ASSUME NEW c \in Client, Connect(c) PROVE AllCalls'
  BY <1>2, <1>6 DEF Connect
<1>7. CASE UNCHANGED vars
  BY <1>2, <1>7 DEF vars, clientVars
<1> QED BY <1>3, <1>4, <1>5, <1>6, <1>7 DEF Next, Server!Next

LEMMA CallsStart == Init => AllCalls
BY DEF Init, Server!Init, Clients!Init, AllCalls, CallsInv, Requested, Received, Own,
   Drained, LastCallInv

\* The closures of every client return the replies to their own calls only, in
\* order and once each, whatever the owner of the server does and whichever
\* closures are invoked again, if no oneway call can miss its interface.
THEOREM RepliesAreOwn ==
  ASSUME OnewayFound
  PROVE  Spec => []OwnReplies
<1>1. ServerInv /\ AllCalls => OwnReplies
  <2> SUFFICES ASSUME ServerInv, AllCalls, NEW c \in Client, NEW k \in DOMAIN calls[c],
                      NEW n \in DOMAIN calls[c][k].given
               PROVE  /\ calls[c][k].given[n].req = k /\ calls[c][k].given[n].n = n
                      /\ n < Len(calls[c][k].given) => calls[c][k].given[n].continues
    BY DEF OwnReplies, Clients!OwnReplies
  <2>1. CallsInv(c) /\ k \in 1 .. Len(calls[c])
    BY DEF AllCalls, ServerInv, Types, CallTypes
  <2>2. n \in 1 .. Len(calls[c][k].given)
    <3> DEFINE given == calls[c][k].given
    <3>1. given \in Seq(Server!Reply)
      BY <2>1, CallFacts
    <3>2. DOMAIN given = 1 .. Len(given)
      BY <3>1
    <3> QED BY <3>2
  <2> QED BY <2>1, <2>2 DEF CallsInv, Own
<1>2. ServerInv /\ AllCalls /\ [Next]_vars => AllCalls'
  BY CallsStep
<1> QED BY <1>1, <1>2, ServerStarts, ServerStep, CallsStart, PTL DEF Spec

\* An interface that a client was told of, by GetInfo, by a description or by
\* a reply of its own, is there for all its later calls: find_interface runs
\* over a registry that only grows, also while it moves to new storage.
THEOREM InterfacesStayKnown ==
  ASSUME OnewayFound
  PROVE  Spec => []KnownInterfaces
<1>1. ServerInv /\ AllCalls => KnownInterfaces
  <2> SUFFICES ASSUME ServerInv, AllCalls, NEW c \in Client,
                      NEW k \in DOMAIN calls[c], NEW l \in DOMAIN calls[c], k < l,
                      NEW r \in Range(calls[c][k].given), NEW s \in Range(calls[c][l].given),
                      calls[c][l].request.of \in r.known, s.error
               PROVE  FALSE
    BY DEF KnownInterfaces
  <2>1. CallsInv(c) /\ k \in 1 .. Len(calls[c]) /\ l \in 1 .. Len(calls[c])
    BY DEF AllCalls, ServerInv, Types, CallTypes
  <2>2. ASSUME NEW q \in 1 .. Len(calls[c]), NEW x \in Range(calls[c][q].given)
        PROVE  x.req = q /\ \E i \in 1 .. Len(down[c]) : x = down[c][i]
    <3> DEFINE given == calls[c][q].given
    <3>3. given \in Seq(Server!Reply)
      BY <2>1, <2>2, CallFacts
    <3>4. DOMAIN given = 1 .. Len(given)
      BY <3>3
    <3>1. PICK n \in 1 .. Len(calls[c][q].given) : x = calls[c][q].given[n]
      BY <2>2, <3>4, Zenon DEF Range
    <3>2. x.req = q /\ \E i \in 1 .. taken[c] : x = down[c][i]
      <4>1. Own(c) /\ Received(c)
        BY <2>1 DEF CallsInv
      <4> QED BY <2>2, <3>1, <4>1 DEF Own, Received
    <3> QED BY <2>1, <3>2, CallFacts
  <2>3. PICK i \in 1 .. Len(down[c]) : r = down[c][i] /\ r.req = k
    BY <2>1, <2>2
  <2>4. PICK j \in 1 .. Len(down[c]) : s = down[c][j] /\ s.req = l
    BY <2>1, <2>2
  <2>5. calls[c][l].request = up[c][l]
    BY <2>1, CallFacts
  <2> QED BY <2>3, <2>4, <2>5, SessionFacts DEF SessionInv, ReplyInv
<1>2. ServerInv /\ AllCalls /\ [Next]_vars => AllCalls'
  BY CallsStep
<1> QED BY <1>1, <1>2, ServerStarts, ServerStep, CallsStart, PTL DEF Spec
-----------------------------------------------------------------------------
(* Nobody waits for the other.                                             *)

\* A connection that was made is accepted, queued or has a session, until it
\* is closed: the accept loop is there as long as the acceptor is, which takes
\* its queue with it.
Served == /\ IF "server" \in members THEN accept # "none" ELSE backlog = <<>>
          /\ \A c \in connected : \/ c \in gone \/ session[c] # "none"
                                  \/ accept = c \/ c \in Range(backlog)

\* A session that reads has answered what it has taken.
Answered(c) ==
    /\ session[c] = "none" /\ ~stopped => handled[c] = 0
    /\ session[c] = "reading" /\ handled[c] > 0 /\ Server!Current(c).mode # "oneway"
          => down[c] # <<>> /\ down[c][Len(down[c])].req = handled[c]

NobodyStuck == Served /\ \A c \in Client : Answered(c)

LEMMA AnsweredFrame ==
  ASSUME ServerInv, NEW c \in Client, Answered(c), Extends(up[c], up'[c]),
         UNCHANGED <<down[c], handled[c]>>, session'[c] \in {session[c], "none"},
         ~stopped' => ~stopped /\ session'[c] = session[c]
  PROVE  Answered(c)'
<1>1. handled[c] > 0 => Server!Current(c)' = Server!Current(c)
  BY SessionFacts DEF SessionInv, PhaseInv, Extends, Server!Current
<1> QED BY <1>1 DEF Answered

\* What leaves the connections where they are.
LEMMA ServedFrame ==
  ASSUME Served, gone \subseteq gone', UNCHANGED <<members, accept, backlog, connected>>,
         \A c \in Client : session[c] # "none" => session'[c] # "none",
         connected \subseteq Client
  PROVE  Served'
BY DEF Served

LEMMA OwnerKeepsServed ==
  ASSUME ServerInv, NobodyStuck, Server!OwnerStep, UNCHANGED clientVars
  PROVE  NobodyStuck'
<1>1. connected \subseteq Client /\ connected' = connected
  BY DEF ServerInv, Types, CallTypes, clientVars
<1>2. /\ UNCHANGED <<up, down, handled>> /\ session' \in {session, [c \in Client |-> "none"]}
      /\ ~stopped' => ~stopped /\ session' = session
  <2>1. CASE Server!DestroyPool
    BY <2>1 DEF Server!DestroyPool
  <2>2. CASE ~Server!DestroyPool
    <3>1. UNCHANGED <<up, down, handled, session>>
      BY <2>2 DEF Server!OwnerStep, Server!Construct, Server!AddInterface, Server!AddMoves,
         Server!AddPublishes, Server!Stop, Server!Join, Server!DestroyServer,
         Server!DestroyService, Server!sessionVars
    <3>2. ~stopped' => ~stopped
      BY <2>2 DEF Server!OwnerStep, Server!Construct, Server!AddInterface, Server!AddMoves,
         Server!AddPublishes, Server!Stop, Server!Join, Server!DestroyServer,
         Server!DestroyService, Server!ownerVars
    <3> QED BY <3>1, <3>2
  <2> QED BY <2>1, <2>2
<1>3. ASSUME NEW c \in Client PROVE Answered(c)'
  <2>1. Extends(up[c], up'[c])
    BY <1>2, ExtendsItself DEF ServerInv, Types, WireTypes
  <2>2. session'[c] \in {session[c], "none"}
    BY <1>2
  <2> QED BY <1>2, <2>1, <2>2, AnsweredFrame DEF NobodyStuck
<1>4. ASSUME Server!Construct PROVE Served'
  <2>1. CASE owner' = "refused"
    <3>1. UNCHANGED <<members, accept, gone, backlog, session>>
      BY <1>4, <2>1 DEF Server!Construct, Server!sessionVars
    <3> QED BY <1>1, <3>1, ServedFrame DEF NobodyStuck
  <2>2. CASE owner' = "up"
    BY <1>1, <1>4, <2>2, ClientAssumption
       DEF Server!Construct, Server!sessionVars, NobodyStuck, Served, ServerInv, RegistryInv
  <2> QED BY <1>4, <2>1, <2>2 DEF Server!Construct
<1>5. ASSUME \/ \E i \in Server!Range(Interface) : Server!AddInterface(i) \/ Server!AddMoves(i)
             \/ Server!AddPublishes \/ Server!Stop \/ Server!Join
      PROVE  Served'
  BY <1>1, <1>5, ServedFrame DEF Server!AddInterface, Server!AddMoves, Server!AddPublishes,
     Server!Stop, Server!Join, Server!ownerVars, Server!acceptVars, Server!sessionVars,
     NobodyStuck
<1>6. ASSUME Server!DestroyServer PROVE Served'
  BY <1>1, <1>6, ClientAssumption
     DEF Server!DestroyServer, Server!sessionVars, Server!Range, Range, NobodyStuck, Served
<1>7. ASSUME Server!DestroyService PROVE Served'
  BY <1>1, <1>7 DEF Server!DestroyService, Server!acceptVars, Server!sessionVars,
     NobodyStuck, Served
<1>8. ASSUME Server!DestroyPool PROVE Served'
  <2>1. backlog = <<>> /\ Range(backlog) = {}
    BY <1>8 DEF Server!DestroyPool, NobodyStuck, Served, Range
  <2> QED BY <1>1, <1>8, <2>1 DEF Server!DestroyPool, NobodyStuck, Served
<1>9. Served'
  BY <1>4, <1>5, <1>6, <1>7, <1>8 DEF Server!OwnerStep
<1> QED BY <1>3, <1>9 DEF NobodyStuck

LEMMA AcceptKeepsServed ==
  ASSUME ServerInv, NobodyStuck, Server!AcceptStep \/ Server!AcceptFails, UNCHANGED clientVars
  PROVE  NobodyStuck'
<1>1. /\ connected \subseteq Client /\ session \in [Client -> Server!Phases]
      /\ connected' = connected
  BY DEF ServerInv, Types, CallTypes, SessionTypes, clientVars
<1>2. UNCHANGED <<up, down, gone, members, stopped, handled>>
  BY DEF Server!AcceptStep, Server!RunPosted, Server!AcceptCompletes,
     Server!HandleAccept, Server!AcceptFails, Server!ownerVars, Server!sessionVars
<1>3. ASSUME session' = session, Served' PROVE NobodyStuck'
  BY <1>2, <1>3 DEF NobodyStuck, Answered, Server!Current
<1>4. CASE Server!RunPosted \/ Server!AcceptFails
  BY <1>1, <1>2, <1>3, <1>4, ClientAssumption
     DEF Server!RunPosted, Server!AcceptFails, Server!sessionVars, NobodyStuck, Served
<1>5. CASE Server!AcceptCompletes
  <2>1. /\ backlog \in Seq(Client) /\ backlog # <<>> /\ IsInjective(backlog)
        /\ accept = "pending" /\ accept' = Head(backlog) /\ backlog' = Tail(backlog)
        /\ session' = session
    BY <1>5 DEF Server!AcceptCompletes, Server!sessionVars, ServerInv, Types, AcceptTypes,
       AdmissionInv
  <2>2. Head(backlog) \in Client /\ Range(backlog') = Range(backlog) \ {Head(backlog)}
    BY <2>1, WithoutFirst
  <2>3. Served'
    BY <1>1, <1>2, <2>1, <2>2, ClientAssumption DEF NobodyStuck, Served
  <2> QED BY <1>3, <2>1, <2>3
<1>6. ASSUME NEW c \in Client, Server!HandleAccept(c) PROVE NobodyStuck'
  <2>1. /\ ~stopped /\ accept = c /\ accept' = "pending" /\ backlog' = backlog
        /\ session' = [session EXCEPT ![c] = "reading"]
    BY <1>6 DEF Server!HandleAccept
  <2>2. Served'
    BY <1>1, <1>2, <2>1, ClientAssumption DEF NobodyStuck, Served
  <2>3. session[c] = "none" /\ handled[c] = 0
    BY <2>1 DEF ServerInv, AdmissionInv, NobodyStuck, Answered
  <2>4. Answered(c)'
    BY <1>1, <1>2, <2>1, <2>3 DEF Answered
  <2>5. ASSUME NEW x \in Client, x # c PROVE Answered(x)'
    BY <1>1, <1>2, <2>1, <2>5 DEF NobodyStuck, Answered, Server!Current
  <2> QED BY <2>2, <2>4, <2>5 DEF NobodyStuck
<1> QED BY <1>4, <1>5, <1>6 DEF Server!AcceptStep

\* A session that reads again has replied to its request, or need not.
LEMMA SessionAnswers ==
  ASSUME ServerInv, NEW c \in Client, Server!SessionStep(c) \/ Server!Stream(c)
  PROVE  /\ Answered(c)' /\ session[c] # "none" /\ session'[c] # "none"
         /\ UNCHANGED <<up, gone, members, accept, backlog, stopped>>
         /\ \A x \in Client : x # c => UNCHANGED <<down[x], handled[x], session[x]>>
<1> DEFINE Goal == /\ Answered(c)' /\ session[c] # "none" /\ session'[c] # "none"
                   /\ UNCHANGED <<up, gone, members, accept, backlog, stopped>>
                   /\ \A x \in Client : x # c => UNCHANGED <<down[x], handled[x], session[x]>>
<1>1. /\ down[c] \in Seq(Server!Reply) /\ down \in [Client -> Seq(Server!Reply)]
      /\ session \in [Client -> Server!Phases] /\ handled \in [Client -> Nat]
      /\ handled[c] \in Nat /\ sent[c] \in Nat
  BY DEF ServerInv, Types, WireTypes, SessionTypes
<1>2. CASE Server!Dispatch(c) \/ Server!Search(c)
  BY <1>1, <1>2 DEF Server!Dispatch, Server!Search, Server!ownerVars, Server!acceptVars,
     Answered
<1>3. ASSUME NEW continues \in BOOLEAN, NEW error, NEW known,
             Server!Replies(c, continues, error, known), session[c] # "none"
      PROVE  Goal
  <2> DEFINE reply == [req |-> handled[c], n |-> sent[c] + 1, continues |-> continues,
                       error |-> error, known |-> known]
  <2>1. /\ down' = [down EXCEPT ![c] = Append(down[c], reply)]
        /\ session' = [session EXCEPT ![c] = IF continues THEN "streaming" ELSE "reading"]
        /\ UNCHANGED <<up, gone, members, accept, backlog, stopped, handled>>
    BY <1>3 DEF Server!Replies, Server!ownerVars, Server!acceptVars
  <2>2. down'[c] = Append(down[c], reply) /\ Len(down[c]) \in Nat
    BY <1>1, <2>1
  <2>3. down'[c] # <<>> /\ down'[c][Len(down'[c])] = reply
    <3> DEFINE S == Server!Reply \cup {reply}
    <3>1. down[c] \in Seq(S) /\ reply \in S
      BY <1>1
    <3> HIDE DEF reply, S
    <3> QED BY <2>2, <3>1, ExtendsAppend
  <2>4. Answered(c)' /\ session'[c] # "none"
    BY <1>1, <2>1, <2>3 DEF Answered
  <2> QED BY <1>1, <1>3, <2>1, <2>4
<1>4. ASSUME NEW continues \in BOOLEAN, NEW known, Server!Answers(c, continues, known),
             session[c] # "none"
      PROVE  Goal
  <2>1. CASE Server!Current(c).mode = "oneway"
    BY <1>1, <1>4, <2>1 DEF Server!Answers, Server!ownerVars, Server!acceptVars, Answered,
       Server!Current
  <2>2. CASE Server!Current(c).mode # "oneway"
    BY <1>3, <1>4, <2>2 DEF Server!Answers
  <2> QED BY <2>1, <2>2
<1>5. CASE Server!NotFound(c) \/ Server!Execute(c)
  BY <1>3, <1>4, <1>5 DEF Server!NotFound, Server!Execute, Server!RepliesError
<1>6. CASE Server!Stream(c) \/ Server!EndStream(c)
  BY <1>4, <1>6 DEF Server!Stream, Server!EndStream
<1> QED BY <1>2, <1>5, <1>6 DEF Server!SessionStep

LEMMA StuckStep == ServerInv /\ NobodyStuck /\ [Next]_vars => NobodyStuck'
<1> SUFFICES ASSUME ServerInv, NobodyStuck, [Next]_vars PROVE NobodyStuck'
  OBVIOUS
<1>1. /\ connected \subseteq Client /\ \A c \in Client : up[c] \in Seq(Clients!Request)
  BY DEF ServerInv, Types, CallTypes, WireTypes
<1>2. ASSUME NEW c \in Client, Server!SessionStep(c) \/ Server!Stream(c), UNCHANGED clientVars
      PROVE  NobodyStuck'
  <2>1. Served'
    <3>1. \A x \in Client : session[x] # "none" => session'[x] # "none"
      BY <1>2, SessionAnswers
    <3> QED BY <1>1, <1>2, <3>1, SessionAnswers, ServedFrame DEF NobodyStuck, clientVars
  <2>2. ASSUME NEW x \in Client, x # c PROVE Answered(x)'
    <3>1. Answered(x) /\ UNCHANGED <<up, stopped, down[x], handled[x], session[x]>>
      BY <1>2, <2>2, SessionAnswers DEF NobodyStuck
    <3> QED BY <3>1 DEF Answered, Server!Current
  <2> QED BY <1>2, <2>1, <2>2, SessionAnswers DEF NobodyStuck
<1>3. ASSUME UNCHANGED <<serverVars, down, gone, connected>>,
             \A c \in Client : Extends(up[c], up'[c])
      PROVE  NobodyStuck'
  <2>1. ASSUME NEW c \in Client PROVE Answered(c)'
    BY <1>3, AnsweredFrame DEF NobodyStuck, serverVars
  <2>2. Served'
    BY <1>1, <1>3, ServedFrame DEF NobodyStuck, serverVars
  <2> QED BY <2>1, <2>2 DEF NobodyStuck
<1>4. ASSUME NEW c \in Client, Clients!Step(c), UNCHANGED serverVars PROVE NobodyStuck'
  <2>1. UNCHANGED <<down, gone, connected>>
    BY <1>4 DEF Clients!Step, Clients!Call, Clients!CallFails, Clients!Invoke,
       Clients!Receive, Clients!ReceiveFails, Clients!wireVars
  <2>2. \A x \in Client : Extends(up[x], up'[x])
    <3>1. ASSUME up' = up PROVE \A x \in Client : Extends(up[x], up'[x])
      BY <1>1, <3>1, ExtendsItself
    <3>2. ASSUME NEW request \in Asks[c], Clients!Call(c, request)
          PROVE  \A x \in Client : Extends(up[x], up'[x])
      <4>1. request \in Clients!Request
        BY DEF Clients!Request
      <4>2. up' = [up EXCEPT ![c] = Append(@, request)]
        BY <3>2 DEF Clients!Call
      <4>3. Extends(up[c], Append(up[c], request))
        BY <1>1, <4>1, ExtendsAppend
      <4> QED BY <1>1, <4>2, <4>3, ExtendsItself DEF ServerInv, Types, WireTypes
    <3> QED BY <1>4, <3>1, <3>2 DEF Clients!Step, Clients!CallFails, Clients!Invoke,
            Clients!Receive, Clients!ReceiveFails, Clients!wireVars
  <2> QED BY <1>3, <1>4, <2>1, <2>2
<1>5. ASSUME NEW c \in Client, Connect(c) PROVE NobodyStuck'
  <2>1. /\ "server" \in members /\ backlog' = Append(backlog, c)
        /\ connected' = connected \cup {c}
        /\ UNCHANGED <<up, down, gone, members, stopped, accept, session, handled>>
    BY <1>5 DEF Connect, Server!Connects, Server!ownerVars, Server!sessionVars
  <2>2. Range(backlog') = Range(backlog) \cup {c}
    BY <2>1, ExtendsAppend DEF ServerInv, Types, AcceptTypes
  <2>3. Served'
    BY <2>1, <2>2 DEF NobodyStuck, Served
  <2> QED BY <2>1, <2>3 DEF NobodyStuck, Answered, Server!Current
<1>6. CASE UNCHANGED vars
  BY <1>1, <1>3, <1>6, ExtendsItself DEF vars, clientVars
<1> QED BY <1>2, <1>4, <1>5, <1>6, OwnerKeepsServed, AcceptKeepsServed
        DEF Next, Server!Next

LEMMA StuckStarts == Init => NobodyStuck
BY DEF Init, Server!Init, Clients!Init, NobodyStuck, Served, Answered

\* A closure that waits has something to come, or its request is on its way:
\* no client is left in receive() on a connection that nobody has taken up,
\* by a session that reads on without having replied, or by a closure that
\* receives once more after its final reply, whatever the owner does and
\* whichever closures are invoked again, if no oneway call can miss its
\* interface.
THEOREM NobodyIsStranded ==
  ASSUME OnewayFound
  PROVE  Spec => []NoCallStranded
<1>1. ServerInv /\ AllCalls /\ NobodyStuck => NoCallStranded
  <2> SUFFICES ASSUME ServerInv, AllCalls, NobodyStuck, NEW c \in Client, waiting[c] # 0,
                      ~(taken[c] < Len(down[c])), c \notin gone
               PROVE  \/ session[c] \in {"searching", "found", "missing", "streaming"}
                      \/ session[c] = "reading" /\ handled[c] < Len(up[c])
                      \/ /\ session[c] = "none"
                         /\ accept = c \/ (c \in Range(backlog) /\ accept # "none")
    BY DEF NoCallStranded
  <2> DEFINE K == Len(calls[c])
  <2>1. /\ CallsInv(c) /\ Answered(c) /\ session[c] \in Server!Phases
        /\ c \in connected
    BY DEF AllCalls, NobodyStuck, ServerInv, Types, SessionTypes, AdmissionInv
  <2>2. /\ K \in Nat /\ Len(up[c]) = K /\ handled[c] \in 0 .. K
        /\ taken[c] = Len(down[c]) /\ Len(down[c]) \in Nat
    BY <2>1, CallFacts DEF CallsInv, Requested
  <2>3. K \in 1 .. K /\ calls[c][K].mode # "oneway"
    <3>1. waiting[c] \in 1 .. K
      BY <2>2 DEF ServerInv, Types, CallTypes
    <3> QED BY <2>1, <3>1 DEF CallsInv, LastCallInv
  <2>4. ~Clients!Over(calls[c][K])
    BY <2>1, <2>3 DEF CallsInv, Drained
  <2>5. CASE session[c] = "none"
    <3>1. accept = c \/ c \in Range(backlog)
      BY <2>1, <2>5 DEF NobodyStuck, Served
    <3>2. c \in Range(backlog) => accept # "none"
      BY DEF NobodyStuck, Served, Range
    <3> QED BY <2>5, <3>1, <3>2
  <2>6. ASSUME session[c] = "reading", handled[c] = K PROVE FALSE
    <3>1. up[c][K].mode # "oneway"
      BY <2>1, <2>3, <2>4, CallFacts DEF Clients!Over
    <3>2. down[c] # <<>> /\ down[c][Len(down[c])].req = K /\ ~down[c][Len(down[c])].continues
      BY <2>1, <2>3, <2>6, <3>1, SessionFacts
         DEF Answered, Server!Current, SessionInv, PhaseInv, Ended
    <3>3. calls[c] # <<>>
      BY <2>3
    <3>4. CASE calls[c][K].given = <<>>
      <4>1. taken[c] > 0
        BY <2>1, <2>2, <3>2, SessionFacts
      <4>2. K < K
        BY <2>1, <2>2, <3>2, <3>3, <3>4, <4>1 DEF CallsInv, LastCallInv
      <4> QED BY <2>2, <4>2
    <3>5. CASE calls[c][K].given # <<>>
      <4>1. calls[c][K].given[Len(calls[c][K].given)] = down[c][Len(down[c])]
        BY <2>1, <2>2, <3>3, <3>5 DEF CallsInv, LastCallInv
      <4> QED BY <2>4, <3>2, <3>5, <4>1 DEF Clients!Over, Clients!Last
    <3> QED BY <3>4, <3>5
  <2> QED BY <2>1, <2>2, <2>5, <2>6 DEF Server!Phases
<1>2. ServerInv /\ AllCalls /\ [Next]_vars => AllCalls'
  BY CallsStep
<1> QED BY <1>1, <1>2, ServerStarts, ServerStep, CallsStart, StuckStarts, StuckStep, PTL
        DEF Spec
=============================================================================
